---- MODULE Spec2Model ----
(***************************************************************************)
(* Model of the NXT backend runtime: the serial-ordered completion queue   *)
(* and its two owners (the D3D12 map-read request tracker and the Vulkan   *)
(* memory allocator), the D3D12 buffer usage-transition policy, and the    *)
(* OpenGL command-buffer executor with its push-constant and input-buffer  *)
(* elision caches.                                                         *)
(*                                                                         *)
(* The subsystems do not share state, so each has its own specification    *)
(* over the module's variables: Spec (D3D12 device serial and map-read     *)
(* tracker), SpecAlloc (Vulkan allocator), SpecUsage (D3D12 buffer usage   *)
(* transitions), SpecGL (OpenGL CommandBuffer::Execute over push-constant  *)
(* streams) and SpecInput (the same executor over vertex-input streams).   *)
(***************************************************************************)
EXTENDS Integers, Sequences, FiniteSets, TLC

(***************************************************************************)
(* Bounds of the model.                                                    *)
(***************************************************************************)
\* Largest device serial reached by submissions and largest Tick argument.
MaxSerial == 2
\* Number of map-read requests tracked in one behaviour.
MaxRequests == 3
\* Number of device memory handles.
MaxMemory == 3
\* Number of usage-transition requests made on the buffer.
MaxTransitions == 3
\* Number of push-constant slots per stage (kMaxPushConstants, scaled down).
MaxPushConstants == 2
\* Largest push-constant value a SetPushConstants record carries.
MaxValue == 1
\* Number of vertex-buffer slots (kMaxVertexInputs, scaled down).
MaxVertexInputs == 5
\* Largest number of passes in a stream handed to Execute as a whole.
MaxBlocks == 2
\* Largest number of layers, extensions or devices the driver reports.
MaxItems == 2
Serials == 0..MaxSerial
Buffers == {1, 2}
\* Start offsets of map-read requests.
Starts == {0, 1}

VARIABLES
    \* D3D12 device and MapReadRequestTracker
    mSerial,            \* Device::GetSerial()
    mInflightRequests,  \* SerialQueue<Request>
    callbacks,          \* calls of CallMapReadCallback, in order
    tracked,            \* history: every request tracked so far
    lastTick,           \* history: the Tick that led to this state, if one did
    mResource,          \* per Buffer: its native resource, as the buffer and the
                        \* release queue of the ResourceAllocator have used it
    trackerDestroyed,   \* ~MapReadRequestTracker has run
    assertFailed        \* an ASSERT found its condition false

VARIABLES
    \* Vulkan device and MemoryAllocator
    vkSerial,           \* the Vulkan device's GetSerial()
    mReleasedMemory,    \* SerialQueue<VkDeviceMemory>
    owned,              \* memory handles held by live allocations
    pool,               \* memory handles the device can hand out again
    freed,              \* history: per handle, the serial and coverage of its Free
    lastAllocTick,      \* history: argument of the Tick that led to this state, or -1
    tickBefore,         \* history: argument of the Tick just before that one, or -1
    \* Vulkan info gathering (VulkanInfo.cpp)
    vkFunction,         \* the function running or last run, or "none"
    vkBlock,            \* which of its enumerations it is at, counted from 1
    vkPhase,            \* "count": before the counting call; "fill": before the
                        \* filling call; "done": returned
    vkCount,            \* the local count, as the counting call wrote it
    vkReturned,         \* "running", "true" or "false"
    vkCalls             \* history: the enumeration calls made, with their results

VARIABLES
    \* D3D12 Buffer and the device's pending command list
    bufCreated,          \* whether Buffer::Buffer has run
    bufAllowedUsage,     \* BufferBase::GetAllowedUsage()
    bufUsage,            \* BufferBase::GetUsage(), the current usage
    bufHeapType,         \* heap the resource was allocated on
    bufCreateState,      \* resource state the resource was allocated in
    pendingCommandList,  \* barriers recorded on Device::GetPendingCommandList()
    transitions,         \* history: every transition request and whether it recorded
    texUsage             \* TextureBase::GetUsage() of the texture, its current usage

VARIABLES
    \* OpenGL CommandBuffer::Execute: position and locals carried across records
    executing,            \* Execute is inside its command loop
    mCommands,            \* the records not read yet when the stream is known from
                          \* the start; <<>> when records arrive one by one
    pass,                 \* "none", "compute", "render" (between subpasses), "subpass"
    currentRenderPass,    \* with it currentFramebuffer, the framebuffer built for it
    currentSubpass,
    currentFBO,
    lastPipeline,         \* also lastGLPipeline: the same object in every record
    lastRenderPipeline,
    indexBufferOffset,
    \* PushConstantTracker
    mValues,
    mDirtyBits,
    \* InputBufferTracker
    mIndexBufferDirty,
    mIndexBuffer,
    mDirtyVertexBuffers,
    mVertexBuffers,
    mVertexBufferOffsets,
    mLastInputState,
    \* OpenGL context
    uniforms,             \* per program, stage and slot: the uniform's value
    liveFBOs,             \* framebuffer names generated and not deleted
    \* history
    pipelineInPass,       \* a pipeline was bound since the pass began
    logical,              \* per stage and slot: latest value set since the pass
                          \* began, 0 if none
    setSince,             \* per stage: slots covered by SetPushConstants since the
                          \* last flush
    setAfterBind,         \* a SetPushConstants came after the latest pipeline
                          \* bind since the last flush
    boundSince,           \* a pipeline was bound since the last flush
    vbSet,                \* slots covered by SetVertexBuffers since the last flush
    layoutSwitched,       \* a bind changed the input layout since the last flush
    atFlush,              \* the history above as the flush of the last record found it
    glCalls,              \* the record processed last: its type and its native
                          \* calls, in order
    passClears,           \* the clears issued since the latest BeginRenderPass,
                          \* each with the subpass that issued it
    log                   \* when switched on: the records processed and the
                          \* native calls issued since Execute began, in order

lifeVars == <<mResource, trackerDestroyed, assertFailed>>
trackerVars == <<mSerial, mInflightRequests, callbacks, tracked, lastTick, lifeVars>>
infoVars == <<vkFunction, vkBlock, vkPhase, vkCount, vkReturned, vkCalls>>
allocVars == <<vkSerial, mReleasedMemory, owned, pool, freed, lastAllocTick,
               tickBefore, infoVars>>

usageVars == <<bufCreated, bufAllowedUsage, bufUsage, bufHeapType, bufCreateState,
               pendingCommandList, transitions, texUsage>>

execVars == <<executing, pass, currentRenderPass, currentSubpass, currentFBO, liveFBOs,
              lastPipeline, lastRenderPipeline, indexBufferOffset, pipelineInPass,
              atFlush, glCalls, mCommands, passClears, log>>
pushVars == <<mValues, mDirtyBits, uniforms, logical, setSince, setAfterBind, boundSince>>
inputVars == <<mIndexBufferDirty, mIndexBuffer, mDirtyVertexBuffers, mVertexBuffers,
               mVertexBufferOffsets, mLastInputState, vbSet, layoutSwitched>>
glVars == <<execVars, pushVars, inputVars>>

vars == <<trackerVars, allocVars, usageVars, glVars>>

\* Value of lastTick in a state no Tick led to.
NoTick == [f |-> -1, n |-> 0]

(***************************************************************************)
(* common/SerialQueue.h: an ordered queue of (item, serial) pairs.         *)
(***************************************************************************)
\* Enqueue appends at the back; its precondition is serial >= the last one.
Enqueue(q, item, serial) == Append(q, [item |-> item, serial |-> serial])

\* Whether Enqueue's assertion (Empty() || back().serial <= serial) holds.
EnqueuePrecondition(q, serial) == q = <<>> \/ q[Len(q)].serial <= serial

\* Index of the last entry of the leading run of entries with serial <= s:
\* the iterator walks from the front and stops at the first larger serial.
RECURSIVE FindUpTo(_, _)
FindUpTo(q, s) ==
    IF q = <<>> \/ Head(q).serial > s THEN 0 ELSE 1 + FindUpTo(Tail(q), s)

\* The items IterateUpTo yields, in order; the queue is left as it is.
IterateUpTo(q, s) == [i \in 1..FindUpTo(q, s) |-> q[i].item]

\* ClearUpTo erases the entries from the front up to FindUpTo.
ClearUpTo(q, s) == SubSeq(q, FindUpTo(q, s) + 1, Len(q))

(***************************************************************************)
(* D3D12 device serial (Device::GetSerial / NextSerial).                   *)
(***************************************************************************)
\* A submission advances the device serial.
NextSerial ==
    /\ mSerial < MaxSerial
    /\ mSerial' = mSerial + 1
    /\ lastTick' = NoTick
    /\ UNCHANGED <<mInflightRequests, callbacks, tracked, lifeVars, allocVars,
                   usageVars, glVars>>

(***************************************************************************)
(* backend/d3d12/BufferD3D12.cpp: map-read requests.                       *)
(***************************************************************************)
\* A buffer's resource after Buffer::Buffer: allocated, not mapped, never
\* handed to Release.  released counts the calls of Release with it;
\* usedAfterRelease and inFlightAtUnmap are history: whether the buffer has
\* called into the resource after a Release, and the requests the latest Unmap
\* found in flight.
NewResource == [mapped |-> FALSE, released |-> 0, destroyed |-> FALSE,
                usedAfterRelease |-> FALSE, inFlightAtUnmap |-> {}]

\* mResource->Map / Unmap / GetGPUVirtualAddress: a call into the resource,
\* leaving it mapped or not.
UseOf(resource, mapped) ==
    [resource EXCEPT !.mapped = mapped,
                     !.usedAfterRelease = @ \/ resource.released > 0]

\* mDevice->GetResourceAllocator()->Release(mResource)
Released(resource) == [resource EXCEPT !.released = @ + 1]

\* Host address Map returns for a buffer's resource.
MappedBase(buffer) == buffer * 10

\* Buffer::OnMapReadCommandSerialFinished: the callback's arguments.
OnMapReadCommandSerialFinished(buffer, mapSerial, data) ==
    [buffer |-> buffer, mapSerial |-> mapSerial, status |-> "SUCCESS", data |-> data]

\* (variant: the request is stamped with its map serial, not the device's)
TrackStampsMapSerial(buffer, mapSerial, data) ==
    Enqueue(mInflightRequests,
            [buffer |-> buffer, mapSerial |-> mapSerial, data |-> data],
            mapSerial)

\* (variant: every request is stamped with serial 0)
TrackStampsZero(buffer, mapSerial, data) ==
    Enqueue(mInflightRequests,
            [buffer |-> buffer, mapSerial |-> mapSerial, data |-> data],
            0)

\* MapReadRequestTracker::Track: the request is stamped with the device serial.
Track(buffer, mapSerial, data) ==
    Enqueue(mInflightRequests,
            [buffer |-> buffer, mapSerial |-> mapSerial, data |-> data],
            mSerial)

\* Buffer::MapReadAsyncImpl: maps the resource and tracks the request.  The
\* front end numbers the requests; start is the first element read.
MapReadAsyncImpl(buffer, start) ==
    /\ Len(tracked) < MaxRequests
    /\ ~trackerDestroyed /\ ~mResource[buffer].destroyed
    /\ mResource' = [mResource EXCEPT ![buffer] = UseOf(@, TRUE)]
    /\ LET serial == Len(tracked) + 1
           data == MappedBase(buffer) + start
       IN /\ mInflightRequests' = Track(buffer, serial, data)
          /\ tracked' = Append(tracked,
                 [buffer |-> buffer, mapSerial |-> serial, data |-> data,
                  start |-> start, serial |-> mSerial, covered |-> FALSE])
    /\ lastTick' = NoTick
    /\ UNCHANGED <<mSerial, callbacks, trackerDestroyed, assertFailed, allocVars,
                   usageVars, glVars>>

\* (variant: the queue is cleared first and iterated afterwards)
TickRequestsAfterClear(finishedSerial) ==
    IterateUpTo(ClearUpTo(mInflightRequests, finishedSerial), finishedSerial)

\* The requests a Tick hands to the callback and the queue it leaves.
TickRequests(finishedSerial) == IterateUpTo(mInflightRequests, finishedSerial)
\* (variant: the clear runs one serial further than the iteration)
TickRemainingOneFurther(finishedSerial) == ClearUpTo(mInflightRequests, finishedSerial + 1)
TickRemaining(finishedSerial) == ClearUpTo(mInflightRequests, finishedSerial)

\* MapReadRequestTracker::Tick
MapReadTick(finishedSerial) ==
    /\ ~trackerDestroyed
    /\ LET reqs == TickRequests(finishedSerial)
       IN callbacks' = callbacks \o
              [i \in 1..Len(reqs) |->
                  OnMapReadCommandSerialFinished(reqs[i].buffer, reqs[i].mapSerial,
                                                 reqs[i].data)]
    /\ mInflightRequests' = TickRemaining(finishedSerial)
    /\ tracked' = [i \in 1..Len(tracked) |->
                      IF tracked[i].serial <= finishedSerial
                      THEN [tracked[i] EXCEPT !.covered = TRUE]
                      ELSE tracked[i]]
    /\ lastTick' = [f |-> finishedSerial, n |-> Len(TickRequests(finishedSerial))]
    /\ UNCHANGED <<mSerial, lifeVars, allocVars, usageVars, glVars>>

\* The map-read requests of a buffer still in the tracker's queue.
InFlight(buffer) ==
    { mInflightRequests[i].item.mapSerial :
        i \in { j \in DOMAIN mInflightRequests :
                   mInflightRequests[j].item.buffer = buffer } }

\* Buffer::UnmapImpl: unmaps the resource and hands it to
\* ResourceAllocator::Release.  The front end unmaps mapped buffers only.
UnmapImpl(buffer) ==
    /\ ~mResource[buffer].destroyed /\ mResource[buffer].mapped
    /\ mResource' = [mResource EXCEPT ![buffer] =
           Released([UseOf(@, FALSE) EXCEPT !.inFlightAtUnmap = InFlight(buffer)])]
    /\ lastTick' = NoTick
    /\ UNCHANGED <<mSerial, mInflightRequests, callbacks, tracked, trackerDestroyed,
                   assertFailed, allocVars, usageVars, glVars>>

\* Buffer::GetVA: asks the resource for its GPU address.  A query that leaves
\* the history as it is changes nothing and is a stuttering step.
GetVA(buffer) ==
    /\ ~mResource[buffer].destroyed
    /\ mResource[buffer].released > 0 /\ ~mResource[buffer].usedAfterRelease
    /\ mResource' = [mResource EXCEPT ![buffer] = UseOf(@, @.mapped)]
    /\ lastTick' = NoTick
    /\ UNCHANGED <<mSerial, mInflightRequests, callbacks, tracked, trackerDestroyed,
                   assertFailed, allocVars, usageVars, glVars>>

\* Buffer::~Buffer: hands the resource to ResourceAllocator::Release.  A request
\* in flight refers to its buffer; the buffer outlives it.
DestroyBuffer(buffer) ==
    /\ ~mResource[buffer].destroyed /\ InFlight(buffer) = {}
    /\ mResource' = [mResource EXCEPT ![buffer] =
           [Released(@) EXCEPT !.destroyed = TRUE]]
    /\ lastTick' = NoTick
    /\ UNCHANGED <<mSerial, mInflightRequests, callbacks, tracked, trackerDestroyed,
                   assertFailed, allocVars, usageVars, glVars>>

\* (variant: the destructor asserts nothing)
DestructorAssertNothing == TRUE
\* ~MapReadRequestTracker: the condition of its ASSERT.
DestructorAssert == mInflightRequests = <<>>

\* MapReadRequestTracker::~MapReadRequestTracker
DestroyTracker ==
    /\ ~trackerDestroyed
    /\ trackerDestroyed' = TRUE
    /\ assertFailed' = ~DestructorAssert
    /\ lastTick' = NoTick
    /\ UNCHANGED <<mSerial, mInflightRequests, callbacks, tracked, mResource,
                   allocVars, usageVars, glVars>>

(***************************************************************************)
(* backend/vulkan/VulkanInfo.cpp: enumerating layers, extensions, devices. *)
(***************************************************************************)
\* The functions and, in order, the enumerations each makes.  Every
\* enumeration is a counting call (null array) and a filling call.
InfoFunctions == {"GatherGlobalInfo", "GetPhysicalDevices", "GatherDeviceInfo"}
Enumerations(function) ==
    CASE function = "GatherGlobalInfo" ->
             << "EnumerateInstanceLayerProperties",
                "EnumerateInstanceExtensionProperties" >>
      [] function = "GetPhysicalDevices" -> << "EnumeratePhysicalDevices" >>
      [] function = "GatherDeviceInfo" ->
             << "EnumerateDeviceLayerProperties",
                "EnumerateDeviceExtensionProperties" >>
      [] OTHER -> <<>>

\* VkResult values an enumeration can return.
VkResults == {"VK_SUCCESS", "VK_INCOMPLETE", "VK_ERROR_OUT_OF_HOST_MEMORY"}

\* What the driver returns from a filling call into an array of vkCount items
\* when it has available items: an error, or VK_INCOMPLETE if the array is too
\* small, or VK_SUCCESS.
FillResult(available, failed) ==
    IF failed THEN "VK_ERROR_OUT_OF_HOST_MEMORY"
    ELSE IF available > vkCount THEN "VK_INCOMPLETE" ELSE "VK_SUCCESS"

\* if (result != VK_SUCCESS && result != VK_INCOMPLETE) return false;
CountSucceeded(result) == result \in {"VK_SUCCESS", "VK_INCOMPLETE"}

\* (variant: an incomplete fill passes as a success)
FillSucceededOrIncomplete(result) == result \in {"VK_SUCCESS", "VK_INCOMPLETE"}
\* if (result != VK_SUCCESS) return false;
FillSucceeded(result) == result = "VK_SUCCESS"

\* One of the three functions is called.
CallInfo(function) ==
    /\ vkPhase = "done"
    /\ vkFunction' = function
    /\ vkBlock' = 1
    /\ vkPhase' = "count"
    /\ vkCount' = 0
    /\ vkReturned' = "running"
    /\ vkCalls' = <<>>
    /\ UNCHANGED <<vkSerial, mReleasedMemory, owned, pool, freed, lastAllocTick,
                   tickBefore, trackerVars, usageVars, glVars>>

\* The counting call of the current enumeration: the driver reports the items
\* it has and a result.
CountCall(available, result) ==
    /\ vkPhase = "count"
    /\ vkCalls' = Append(vkCalls,
           [name |-> Enumerations(vkFunction)[vkBlock], kind |-> "count",
            available |-> available, size |-> 0, result |-> result])
    /\ IF CountSucceeded(result)
       THEN /\ vkCount' = available
            /\ vkPhase' = "fill"
            /\ UNCHANGED vkReturned
       ELSE /\ vkPhase' = "done"
            /\ vkReturned' = "false"
            /\ UNCHANGED vkCount
    /\ UNCHANGED <<vkFunction, vkBlock, vkSerial, mReleasedMemory, owned, pool, freed,
                   lastAllocTick, tickBefore, trackerVars, usageVars, glVars>>

\* The filling call of the current enumeration, into an array resized to count;
\* the driver may have more or fewer items than it reported.
FillCall(available, failed) ==
    /\ vkPhase = "fill"
    /\ LET result == FillResult(available, failed)
       IN /\ vkCalls' = Append(vkCalls,
                 [name |-> Enumerations(vkFunction)[vkBlock], kind |-> "fill",
                  available |-> available, size |-> vkCount, result |-> result])
          /\ IF ~FillSucceeded(result)
             THEN vkPhase' = "done" /\ vkReturned' = "false" /\ UNCHANGED vkBlock
             ELSE IF vkBlock < Len(Enumerations(vkFunction))
             THEN vkPhase' = "count" /\ vkBlock' = vkBlock + 1 /\ UNCHANGED vkReturned
             ELSE vkPhase' = "done" /\ vkReturned' = "true" /\ UNCHANGED vkBlock
    /\ UNCHANGED <<vkFunction, vkCount, vkSerial, mReleasedMemory, owned, pool, freed,
                   lastAllocTick, tickBefore, trackerVars, usageVars, glVars>>

(***************************************************************************)
(* backend/vulkan/MemoryAllocator.h: deferred release of device memory.    *)
(***************************************************************************)
Memories == 1..MaxMemory

\* Value of freed[m] while m is not waiting for, or past, a release.
NotFreed == [serial |-> -1, covered |-> FALSE, returns |-> 0]

\* A submission advances the Vulkan device's serial.
VkNextSerial ==
    /\ vkSerial < MaxSerial
    /\ vkSerial' = vkSerial + 1
    /\ lastAllocTick' = -1 /\ tickBefore' = -1
    /\ UNCHANGED <<mReleasedMemory, owned, pool, freed, infoVars,
                   trackerVars, usageVars, glVars>>

\* MemoryAllocator::Allocate succeeding: the allocation takes a handle the
\* device has available.
Allocate(memory) ==
    /\ memory \in pool
    /\ pool' = pool \ {memory}
    /\ owned' = owned \cup {memory}
    /\ freed' = [freed EXCEPT ![memory] = NotFreed]
    /\ lastAllocTick' = -1 /\ tickBefore' = -1
    /\ UNCHANGED <<vkSerial, mReleasedMemory, infoVars,
                   trackerVars, usageVars, glVars>>

\* (variant: the handle is queued as if released at the first serial)
FreeQueueNoSerial(memory) == Enqueue(mReleasedMemory, memory, 0)

\* The queue after MemoryAllocator::Free has queued the handle.
FreeQueue(memory) == Enqueue(mReleasedMemory, memory, vkSerial)

\* MemoryAllocator::Free: the handle is queued with the current serial and
\* leaves the allocation; the device does not get it back yet.
Free(memory) ==
    /\ memory \in owned
    /\ mReleasedMemory' = FreeQueue(memory)
    /\ owned' = owned \ {memory}
    /\ freed' = [freed EXCEPT ![memory] =
                    [serial |-> vkSerial, covered |-> FALSE, returns |-> 0]]
    /\ lastAllocTick' = -1 /\ tickBefore' = -1
    /\ UNCHANGED <<vkSerial, pool, infoVars,
                   trackerVars, usageVars, glVars>>

\* The handles MemoryAllocator::Tick gives back to the device.
Reclaimed(finishedSerial) ==
    LET done == IterateUpTo(mReleasedMemory, finishedSerial)
    IN {done[i] : i \in 1..Len(done)}

\* How many times MemoryAllocator::Tick gives one handle back.
ReclaimCount(finishedSerial, memory) ==
    LET done == IterateUpTo(mReleasedMemory, finishedSerial)
    IN Cardinality({i \in 1..Len(done) : done[i] = memory})

\* (variant: Tick iterates the queue and leaves it as it is)
TickQueueKept(finishedSerial) == mReleasedMemory

\* The queue after MemoryAllocator::Tick.
TickQueue(finishedSerial) == ClearUpTo(mReleasedMemory, finishedSerial)

\* MemoryAllocator::Tick: the handles queued up to finishedSerial go back to
\* the device and leave the queue.
AllocTick(finishedSerial) ==
    /\ pool' = pool \cup Reclaimed(finishedSerial)
    /\ mReleasedMemory' = TickQueue(finishedSerial)
    /\ freed' = [m \in Memories |->
                    IF freed[m].serial >= 0 /\ freed[m].serial <= finishedSerial
                    THEN [freed[m] EXCEPT
                             !.covered = TRUE,
                             !.returns = @ + ReclaimCount(finishedSerial, m)]
                    ELSE freed[m]]
    /\ lastAllocTick' = finishedSerial
    /\ tickBefore' = lastAllocTick
    /\ UNCHANGED <<vkSerial, owned, infoVars,
                   trackerVars, usageVars, glVars>>

(***************************************************************************)
(* backend/d3d12/BufferD3D12.cpp: buffer creation and usage transitions.   *)
(* A usage (nxt::BufferUsageBit) is the set of its bits; a resource state  *)
(* (D3D12_RESOURCE_STATES) is the set of its state bits, COMMON being {}.  *)
(***************************************************************************)
BufferUsageBits ==
    {"MapRead", "MapWrite", "TransferSrc", "TransferDst", "Index", "Vertex",
     "Uniform", "Storage"}

D3D12_RESOURCE_STATE_COMMON == {}
\* D3D12_RESOURCE_STATE_GENERIC_READ is the union of the read states.
D3D12_RESOURCE_STATE_GENERIC_READ ==
    {"VERTEX_AND_CONSTANT_BUFFER", "INDEX_BUFFER", "NON_PIXEL_SHADER_RESOURCE",
     "PIXEL_SHADER_RESOURCE", "INDIRECT_ARGUMENT", "COPY_SOURCE"}

\* (variant: the vertex/constant state needs both the Vertex and the Uniform bit)
D3D12BufferUsageBothBits(usage) ==
    D3D12_RESOURCE_STATE_COMMON
        \cup (IF "TransferSrc" \in usage THEN {"COPY_SOURCE"} ELSE {})
        \cup (IF "TransferDst" \in usage THEN {"COPY_DEST"} ELSE {})
        \cup (IF {"Vertex", "Uniform"} \subseteq usage
              THEN {"VERTEX_AND_CONSTANT_BUFFER"} ELSE {})
        \cup (IF "Index" \in usage THEN {"INDEX_BUFFER"} ELSE {})
        \cup (IF "Storage" \in usage THEN {"UNORDERED_ACCESS"} ELSE {})

\* D3D12BufferUsage: the native state of an abstract usage.
D3D12BufferUsage(usage) ==
    D3D12_RESOURCE_STATE_COMMON
        \cup (IF "TransferSrc" \in usage THEN {"COPY_SOURCE"} ELSE {})
        \cup (IF "TransferDst" \in usage THEN {"COPY_DEST"} ELSE {})
        \cup (IF usage \cap {"Vertex", "Uniform"} # {}
              THEN {"VERTEX_AND_CONSTANT_BUFFER"} ELSE {})
        \cup (IF "Index" \in usage THEN {"INDEX_BUFFER"} ELSE {})
        \cup (IF "Storage" \in usage THEN {"UNORDERED_ACCESS"} ELSE {})

\* (variant: MapWrite is looked at first)
D3D12HeapTypeWriteFirst(allowedUsage) ==
    IF "MapWrite" \in allowedUsage THEN "UPLOAD"
    ELSE IF "MapRead" \in allowedUsage THEN "READBACK"
    ELSE "DEFAULT"

\* D3D12HeapType
D3D12HeapType(allowedUsage) ==
    IF "MapRead" \in allowedUsage THEN "READBACK"
    ELSE IF "MapWrite" \in allowedUsage THEN "UPLOAD"
    ELSE "DEFAULT"

\* Buffer::Buffer: the state the resource is allocated in.
CreationState(allowedUsage, usage) ==
    D3D12BufferUsage(usage)
        \cup (IF D3D12HeapType(allowedUsage) = "READBACK" THEN {"COPY_DEST"} ELSE {})
        \cup (IF D3D12HeapType(allowedUsage) = "UPLOAD"
              THEN D3D12_RESOURCE_STATE_GENERIC_READ ELSE {})

\* Allowed usages of the buffers created.
AllowedUsages ==
    {{"MapRead", "TransferDst"}, {"MapWrite", "TransferSrc"},
     {"TransferDst", "Vertex", "Uniform"}, {"TransferSrc", "Index", "Storage"}}

\* Buffer::Buffer: allowedUsage and the initial usage come from the builder.
CreateBuffer(allowedUsage, usage) ==
    /\ ~bufCreated
    /\ bufCreated' = TRUE
    /\ bufAllowedUsage' = allowedUsage
    /\ bufUsage' = usage
    /\ bufHeapType' = D3D12HeapType(allowedUsage)
    /\ bufCreateState' = CreationState(allowedUsage, usage)
    /\ UNCHANGED <<pendingCommandList, transitions, texUsage, trackerVars, allocVars,
                   glVars>>

\* (variant: only MapRead buffers are taken as mapped)
IsMappedBufferReadOnly(allowedUsage) == "MapRead" \in allowedUsage

\* GetResourceTransitionBarrier's first test: buffers that can be mapped.
IsMappedBuffer(allowedUsage) == allowedUsage \cap {"MapRead", "MapWrite"} # {}

\* (variant: the abstract usages are compared, not the native states)
StatesDifferByUsage(currentUsage, targetUsage) == currentUsage # targetUsage

\* (variant: the equality test is missing)
StatesDifferAlways(currentUsage, targetUsage) == TRUE

\* GetResourceTransitionBarrier's second test: stateBefore != stateAfter.
StatesDiffer(currentUsage, targetUsage) ==
    D3D12BufferUsage(currentUsage) # D3D12BufferUsage(targetUsage)

\* (variant: the barrier's StateAfter keeps the bits of the state before)
GetResourceTransitionBarrierCarried(allowedUsage, currentUsage, targetUsage) ==
    IF IsMappedBuffer(allowedUsage) THEN [needed |-> FALSE]
    ELSE IF ~StatesDiffer(currentUsage, targetUsage) THEN [needed |-> FALSE]
    ELSE [needed |-> TRUE,
          barrier |-> [StateBefore |-> D3D12BufferUsage(currentUsage),
                       StateAfter |-> D3D12BufferUsage(currentUsage)
                                          \cup D3D12BufferUsage(targetUsage)]]

\* Buffer::GetResourceTransitionBarrier: whether a barrier is needed, and the
\* barrier it fills in.
GetResourceTransitionBarrier(allowedUsage, currentUsage, targetUsage) ==
    IF IsMappedBuffer(allowedUsage) THEN [needed |-> FALSE]
    ELSE IF ~StatesDiffer(currentUsage, targetUsage) THEN [needed |-> FALSE]
    ELSE [needed |-> TRUE,
          barrier |-> [StateBefore |-> D3D12BufferUsage(currentUsage),
                       StateAfter |-> D3D12BufferUsage(targetUsage)]]

\* (variant: the barrier is left for later, nothing is recorded now)
TransitionUsageImplDeferred(currentUsage, targetUsage) == pendingCommandList

\* Buffer::TransitionUsageImpl: the pending command list afterwards.
TransitionUsageImpl(currentUsage, targetUsage) ==
    LET r == GetResourceTransitionBarrier(bufAllowedUsage, currentUsage, targetUsage)
    IN IF r.needed THEN Append(pendingCommandList, r.barrier) ELSE pendingCommandList

\* A usage transition of the buffer requested by the front end: the backend
\* is called with the current and the target usage, and the target becomes
\* the current usage.
TransitionUsage(targetUsage) ==
    /\ bufCreated
    /\ Len(transitions) < MaxTransitions
    /\ pendingCommandList' = TransitionUsageImpl(bufUsage, targetUsage)
    /\ bufUsage' = targetUsage
    /\ transitions' = Append(transitions,
           [current |-> bufUsage, target |-> targetUsage,
            recorded |-> Len(TransitionUsageImpl(bufUsage, targetUsage))
                             > Len(pendingCommandList)])
    /\ UNCHANGED <<bufCreated, bufAllowedUsage, bufHeapType, bufCreateState,
                   texUsage, trackerVars, allocVars, glVars>>

\* buffer->UpdateUsageInternal(usage) as a usage-transition record calls it:
\* the backend's TransitionUsageImpl runs with the current and the target
\* usage, and the target becomes the current usage.
UpdateUsageInternal(usage) ==
    /\ pendingCommandList' = TransitionUsageImpl(bufUsage, usage)
    /\ bufUsage' = usage
    /\ transitions' = Append(transitions,
           [current |-> bufUsage, target |-> usage,
            recorded |-> Len(TransitionUsageImpl(bufUsage, usage))
                             > Len(pendingCommandList)])

(***************************************************************************)
(* backend/opengl/CommandBufferGL.cpp: the objects a command stream names. *)
(***************************************************************************)
Stages == {"Vertex", "Fragment", "Compute"}
\* IterateStages(kAllStages) visits the stages in bit order.
StageOrder == <<"Vertex", "Fragment", "Compute">>
PushSlots == 0..(MaxPushConstants - 1)
Values == 0..MaxValue
VertexSlots == 0..(MaxVertexInputs - 1)
GLBuffers == {"bufA", "bufB"}

ComputePipelines == {"CA", "CB"}
\* Render pipelines that use push constants and no vertex input.
PushRenderPipelines == {"RA", "RB"}
\* Render pipelines that use vertex inputs and no push constant.
InputRenderPipelines == {"RV", "RW", "RX"}
PlainRenderPipelines == {"RP", "RQ"}
RenderPipelines ==
    PushRenderPipelines \cup InputRenderPipelines \cup PlainRenderPipelines
Pipelines == ComputePipelines \cup RenderPipelines

\* pipeline->GetPushConstants(stage).mask
PushConstantMask(pipeline, stage) ==
    CASE pipeline = "CA" /\ stage = "Compute" -> {0, 1}
      [] pipeline = "RA" /\ stage = "Vertex" -> {0}
      [] pipeline = "RA" /\ stage = "Fragment" -> {1}
      [] OTHER -> {}

\* pipeline->GetInputState(): RV and RX share one input state.
InputStateOf(pipeline) ==
    CASE pipeline \in {"RV", "RX"} -> "I1"
      [] pipeline = "RW" -> "I2"
      [] pipeline = "RP" -> "I3"
      [] pipeline = "RQ" -> "I4"
      [] OTHER -> "I0"

\* inputState->GetInputsSetMask()
InputsSetMask(inputState) ==
    CASE inputState = "I1" -> {0, 2, 4}
      [] inputState = "I2" -> {0, 3}
      [] inputState \in {"I3", "I4"} -> {0}
      [] OTHER -> {}

\* inputState->GetAttributesUsingInput(slot): attribute locations fed by a slot.
AttributesUsingInput(inputState, slot) ==
    CASE inputState = "I1" /\ slot = 0 -> {0}
      [] inputState = "I1" /\ slot = 2 -> {1}
      [] inputState = "I1" /\ slot = 4 -> {2, 3}
      [] inputState = "I2" /\ slot = 0 -> {0}
      [] inputState = "I2" /\ slot = 3 -> {1}
      [] inputState = "I3" /\ slot = 0 -> {0}
      [] inputState = "I4" /\ slot = 0 -> {0, 1}
      [] OTHER -> {}

\* inputState->GetAttribute(location).offset
AttributeOffset(inputState, location) ==
    IF inputState = "I1" /\ location = 3 THEN 8 ELSE 0

\* The render passes a BeginRenderPass record can name, each with the
\* framebuffer built for it: per subpass, the color attachment slot of each
\* color location and the depth-stencil attachment slot (-1 if none).
\* "single" has one subpass drawing to one color attachment; "double" has two
\* subpasses, the second reusing the color attachment of the first at
\* location 0 and adding a second one at location 1.
RenderPasses == {"single", "double"}
Subpasses(renderPass) ==
    IF renderPass = "single"
    THEN << [colorAttachments |-> (0 :> 0), depthStencilAttachment |-> -1] >>
    ELSE << [colorAttachments |-> (0 :> 1), depthStencilAttachment |-> 2],
            [colorAttachments |-> (0 :> 1) @@ (1 :> 0), depthStencilAttachment |-> 2] >>

\* The attachment slots of a render pass.
AttachmentSlots(renderPass) == IF renderPass = "single" THEN {0} ELSE {0, 1, 2}

\* renderPass->GetAttachmentInfo(slot)
AttachmentInfo(renderPass, slot) ==
    CASE renderPass = "double" /\ slot = 0 ->
             [firstSubpass |-> 1, colorLoadOp |-> "Clear",
              depthLoadOp |-> "Load", stencilLoadOp |-> "Load",
              hasDepth |-> FALSE, hasStencil |-> FALSE]
      [] renderPass = "double" /\ slot = 2 ->
             [firstSubpass |-> 0, colorLoadOp |-> "Load",
              depthLoadOp |-> "Clear", stencilLoadOp |-> "Load",
              hasDepth |-> TRUE, hasStencil |-> TRUE]
      [] OTHER ->
             [firstSubpass |-> 0, colorLoadOp |-> "Clear",
              depthLoadOp |-> "Load", stencilLoadOp |-> "Load",
              hasDepth |-> FALSE, hasStencil |-> FALSE]

\* framebuffer->GetClearColor(i) and GetClearDepthStencil(i): clear values are
\* recorded per attachment slot.
ClearColor(renderPass, slot) ==
    CASE renderPass = "single" -> "red"
      [] slot = 0 -> "blue"
      [] slot = 1 -> "red"
      [] OTHER -> "black"
ClearDepthStencil(renderPass, slot) == [depth |-> slot, stencil |-> slot]

\* IterateBitSet: the members of a bit set in increasing order.
RECURSIVE IterateBitSet(_)
IterateBitSet(bits) ==
    IF bits = {} THEN <<>>
    ELSE LET low == CHOOSE x \in bits : \A y \in bits : x <= y
         IN <<low>> \o IterateBitSet(bits \ {low})

\* ((1ull << count) - 1ull) << offset, as a set of bit positions.
RangeMask(count, offset) == {b \in Nat : b >= offset /\ b < offset + count}

(***************************************************************************)
(* PushConstantTracker                                                     *)
(***************************************************************************)
\* (variant: the values are kept across the pass boundary)
PushOnBeginPassKept == mValues

\* OnBeginPass: mValues[stage].fill(0); the dirty bits are left alone.
PushOnBeginPass == [stage \in Stages |-> [c \in PushSlots |-> 0]]

\* OnSetPushConstants: the memcpy into mValues.
ValuesAfterSet(stages, count, offset, data) ==
    [stage \in Stages |->
        [c \in PushSlots |->
            IF stage \in stages /\ c >= offset /\ c < offset + count
            THEN data[c - offset + 1]
            ELSE mValues[stage][c]]]

\* (variant: setting constants marks nothing dirty)
DirtyAfterSetUnmarked(stages, count, offset) == mDirtyBits

\* OnSetPushConstants: mDirtyBits[stage] |= range.
DirtyAfterSet(stages, count, offset) ==
    [stage \in Stages |->
        IF stage \in stages
        THEN mDirtyBits[stage] \cup (RangeMask(count, offset) \cap PushSlots)
        ELSE mDirtyBits[stage]]

\* (variant: the pipeline switch leaves the dirty bits as they are)
DirtyAfterSetPipelineKept(pipeline) == mDirtyBits

\* (variant: the mask is added to the dirty bits)
DirtyAfterSetPipelineMerged(pipeline) ==
    [stage \in Stages |-> mDirtyBits[stage] \cup PushConstantMask(pipeline, stage)]

\* OnSetPipeline: mDirtyBits[stage] = pipeline->GetPushConstants(stage).mask.
DirtyAfterSetPipeline(pipeline) ==
    [stage \in Stages |-> PushConstantMask(pipeline, stage)]

\* (variant: every dirty constant is written, consumed or not)
ApplyConstantsAllDirty(pipeline, stage) == IterateBitSet(mDirtyBits[stage])

\* Apply: the constants written for one stage.
ApplyConstants(pipeline, stage) ==
    IterateBitSet(mDirtyBits[stage] \cap PushConstantMask(pipeline, stage))

\* Apply: the glUniform1* calls of one stage, on the pipeline's program.
ApplyStage(pipeline, stage) ==
    LET constants == ApplyConstants(pipeline, stage)
    IN [i \in 1..Len(constants) |->
           [call |-> "glUniform", program |-> pipeline, stage |-> stage,
            slot |-> constants[i], value |-> mValues[stage][constants[i]]]]

\* Apply: the calls of all stages, in stage order.
ApplyWrites(pipeline) ==
    ApplyStage(pipeline, StageOrder[1]) \o ApplyStage(pipeline, StageOrder[2])
        \o ApplyStage(pipeline, StageOrder[3])

\* (variant: the flush leaves the dirty bits as they are)
DirtyAfterApplyKept == mDirtyBits

\* (variant: the flush clears only the bits of the constants it visited)
DirtyAfterApplyVisitedOnly ==
    [stage \in Stages |-> mDirtyBits[stage] \ PushConstantMask(lastPipeline, stage)]

\* Apply: mDirtyBits[stage].reset() for every stage.
DirtyAfterApply == [stage \in Stages |-> {}]

\* The uniforms after a sequence of native calls: a glUniform call stores its
\* value in the uniform of its program.
RECURSIVE UniformsAfter(_, _)
UniformsAfter(u, calls) ==
    IF calls = <<>> THEN u
    ELSE LET c == Head(calls)
         IN UniformsAfter(
                IF c.call = "glUniform"
                THEN [u EXCEPT ![c.program][c.stage][c.slot] = c.value]
                ELSE u,
                Tail(calls))

(***************************************************************************)
(* InputBufferTracker                                                      *)
(***************************************************************************)
\* OnSetVertexBuffers: mDirtyVertexBuffers |= range.
DirtyAfterSetVertexBuffers(startSlot, count) ==
    mDirtyVertexBuffers \cup (RangeMask(count, startSlot) \cap VertexSlots)

\* (variant: the cached input state survives the pass boundary)
InputOnBeginPassKept == mLastInputState

\* InputBufferTracker::OnBeginPass: mLastInputState = nullptr.
InputOnBeginPass == "null"

\* (variant: no input state passes for the cached one)
SameInputStateNever(pipeline) == FALSE

\* OnSetPipeline: whether the pipeline's input state is the cached one.
SameInputState(pipeline) == mLastInputState = InputStateOf(pipeline)

\* (variant: the switch does not mark the live slots of the new input state)
DirtyAfterInputSetPipelineUnmarked(pipeline) == mDirtyVertexBuffers

\* OnSetPipeline: mDirtyVertexBuffers |= inputState->GetInputsSetMask(), unless
\* the input state is the cached one.
DirtyAfterInputSetPipeline(pipeline) ==
    IF SameInputState(pipeline) THEN mDirtyVertexBuffers
    ELSE mDirtyVertexBuffers \cup InputsSetMask(InputStateOf(pipeline))

\* (variant: the index buffer is bound at every flush once one is set)
ApplyIndexBufferWheneverSet ==
    IF mIndexBuffer # "null"
    THEN << [call |-> "glBindBuffer", target |-> "ELEMENT_ARRAY_BUFFER",
             buffer |-> mIndexBuffer] >>
    ELSE <<>>

\* Apply: the index-buffer bind.
ApplyIndexBuffer ==
    IF mIndexBufferDirty /\ mIndexBuffer # "null"
    THEN << [call |-> "glBindBuffer", target |-> "ELEMENT_ARRAY_BUFFER",
             buffer |-> mIndexBuffer] >>
    ELSE <<>>

\* Apply: the slots visited.
ApplySlots == IterateBitSet(mDirtyVertexBuffers \cap InputsSetMask(mLastInputState))

\* Apply: the calls for the attributes (a sequence of locations) of one slot.
RECURSIVE ApplyAttributes(_, _)
ApplyAttributes(slot, locations) ==
    IF locations = <<>> THEN <<>>
    ELSE << [call |-> "glBindBuffer", target |-> "ARRAY_BUFFER",
             buffer |-> mVertexBuffers[slot], slot |-> slot],
            [call |-> "glVertexAttribPointer", location |-> Head(locations),
             slot |-> slot,
             offset |-> mVertexBufferOffsets[slot]
                            + AttributeOffset(mLastInputState, Head(locations))] >>
         \o ApplyAttributes(slot, Tail(locations))

\* Apply: the calls for a sequence of slots.
RECURSIVE ApplySlotCalls(_)
ApplySlotCalls(slots) ==
    IF slots = <<>> THEN <<>>
    ELSE ApplyAttributes(Head(slots),
             IterateBitSet(AttributesUsingInput(mLastInputState, Head(slots))))
         \o ApplySlotCalls(Tail(slots))

\* Variant of InputApplyCalls: the flush leaves the vertex buffers out.
InputApplyCallsIndexOnly == ApplyIndexBuffer

\* Apply: all native calls of the input-buffer flush.
InputApplyCalls == ApplyIndexBuffer \o ApplySlotCalls(ApplySlots)

(***************************************************************************)
(* CommandBuffer::Execute: one action per record type.                     *)
(***************************************************************************)
otherVars == <<trackerVars, allocVars, usageVars>>
EmptyStages == [stage \in Stages |-> {}]
NoFlush == [flushed |-> FALSE, setSince |-> EmptyStages, setAfterBind |-> FALSE,
            boundSince |-> FALSE, vbSet |-> {}, layoutSwitched |-> FALSE,
            dirty |-> EmptyStages, dirtyVertex |-> {}, indexDirty |-> FALSE]
\* The history a flush finds, kept for the record that flushed.
FlushHistory == [flushed |-> TRUE, setSince |-> setSince, setAfterBind |-> setAfterBind,
                 boundSince |-> boundSince, vbSet |-> vbSet,
                 layoutSwitched |-> layoutSwitched, dirty |-> mDirtyBits,
                 dirtyVertex |-> mDirtyVertexBuffers,
                 indexDirty |-> mIndexBufferDirty /\ mIndexBuffer # "null"]

\* What every record leaves behind: its type, its native calls, its flush history.
\* Records that make no native call are one type, "state".
IsClear(c) == c.call \in {"glClearBufferfv", "glClearBufferfi", "glClearBufferiv"}

\* Variant of CommandsAfter: the iterator stays on the record.
CommandsAfterKept == mCommands

\* mCommands.NextCommand<T>() moves the iterator past the record.
CommandsAfter == IF mCommands = <<>> THEN mCommands ELSE Tail(mCommands)

Processed(type, calls, flush) ==
    /\ glCalls' = [type |-> type, calls |-> calls]
    /\ atFlush' = flush
    /\ mCommands' = CommandsAfter
    /\ passClears' =
           IF type = "BeginRenderPass" THEN <<>>
           ELSE LET clears == SelectSeq(calls, IsClear)
                IN passClears \o [i \in 1..Len(clears) |->
                                    [subpass |-> currentSubpass, clear |-> clears[i]]]
    /\ log' = IF ~log.on THEN log
              ELSE [on |-> TRUE,
                    records |-> IF mCommands = <<>> THEN log.records
                                ELSE Append(log.records, Head(mCommands)),
                    calls |-> log.calls \o calls]

\* mValues, mVertexBuffers and mVertexBufferOffsets have no initialiser: their
\* elements are indeterminate until OnBeginPass or OnSetVertexBuffers stores to
\* them.
Indeterminate == -1
IndeterminateBuffer == "indeterminate"

\* Stages a SetPushConstants record may name in the current pass.
StagesOfPass == IF pass = "compute" THEN {"Compute"} ELSE {"Vertex", "Fragment"}

\* The front end hands Execute a draw only when every vertex input of the bound
\* pipeline has a buffer.
VertexInputsSet ==
    \A slot \in InputsSetMask(InputStateOf(lastRenderPipeline)) :
        mVertexBuffers[slot] # IndeterminateBuffer

\* The history kept per pass starts afresh where a pass begins or ends.
PassHistoryEnds ==
    /\ pipelineInPass' = FALSE
    /\ logical' = [stage \in Stages |-> [c \in PushSlots |-> 0]]
    /\ setSince' = EmptyStages /\ setAfterBind' = FALSE /\ boundSince' = FALSE

\* case Command::BeginComputePass
BeginComputePass ==
    /\ executing /\ pass = "none"
    /\ pass' = "compute"
    /\ mValues' = PushOnBeginPass
    /\ PassHistoryEnds
    /\ Processed("state", <<>>, NoFlush)
    /\ UNCHANGED <<executing, currentRenderPass, currentSubpass, currentFBO,
                   liveFBOs, lastPipeline,
                   lastRenderPipeline, indexBufferOffset, mDirtyBits, uniforms,
                   inputVars, otherVars>>

\* case Command::BeginRenderPass
BeginRenderPass(renderPass) ==
    /\ executing /\ pass = "none"
    /\ pass' = "render"
    /\ currentRenderPass' = renderPass
    /\ currentSubpass' = 0
    /\ Processed("BeginRenderPass", <<>>, NoFlush)
    /\ UNCHANGED <<executing, currentFBO, liveFBOs, lastPipeline, lastRenderPipeline,
                   indexBufferOffset, pipelineInPass, pushVars, inputVars, otherVars>>

\* glGenFramebuffers: an unused framebuffer name.
GenFramebuffer ==
    CHOOSE n \in 1..(Cardinality(liveFBOs) + 1) :
        n \notin liveFBOs /\ \A m \in 1..(n - 1) : m \in liveFBOs

\* currentRenderPass->GetSubpassInfo(currentSubpass)
SubpassInfo == Subpasses(currentRenderPass)[currentSubpass + 1]

\* IterateBitSet(subpass.colorAttachmentsSet)
ColorLocations == IterateBitSet(DOMAIN SubpassInfo.colorAttachments)

\* BeginRenderSubpass: attaching the color buffers and selecting the draw buffers.
AttachColorCalls ==
    [i \in 1..Len(ColorLocations) |->
        [call |-> "glFramebufferTexture2D", attachment |-> ColorLocations[i],
         texture |-> SubpassInfo.colorAttachments[ColorLocations[i]]]]
    \o << [call |-> "glDrawBuffers",
           count |-> IF ColorLocations = <<>> THEN 0
                     ELSE ColorLocations[Len(ColorLocations)] + 1] >>

\* BeginRenderSubpass: attaching the depth/stencil buffer.
AttachDepthStencilCalls ==
    IF SubpassInfo.depthStencilAttachment = -1 THEN <<>>
    ELSE LET info == AttachmentInfo(currentRenderPass,
                                    SubpassInfo.depthStencilAttachment)
         IN << [call |-> "glFramebufferTexture2D",
                attachment |-> IF info.hasDepth
                               THEN IF info.hasStencil THEN "DEPTH_STENCIL" ELSE "DEPTH"
                               ELSE "STENCIL",
                texture |-> SubpassInfo.depthStencilAttachment] >>

\* Variant of ClearColorCalls: the clear is issued in every subpass that
\* references the attachment.
RECURSIVE ClearColorCallsEverySubpass(_)
ClearColorCallsEverySubpass(locations) ==
    IF locations = <<>> THEN <<>>
    ELSE LET location == Head(locations)
             info == AttachmentInfo(currentRenderPass,
                                     SubpassInfo.colorAttachments[location])
         IN (IF info.colorLoadOp = "Clear"
             THEN << [call |-> "glClearBufferfv", buffer |-> "COLOR",
                      drawbuffer |-> location,
                      value |-> ClearColor(currentRenderPass, location)] >>
             ELSE <<>>)
            \o ClearColorCallsEverySubpass(Tail(locations))

\* BeginRenderSubpass: the color clear of one location, if its load op asks for
\* it and this subpass is the attachment's first use.
RECURSIVE ClearColorCalls(_)
ClearColorCalls(locations) ==
    IF locations = <<>> THEN <<>>
    ELSE LET location == Head(locations)
             info == AttachmentInfo(currentRenderPass,
                                     SubpassInfo.colorAttachments[location])
         IN (IF info.firstSubpass = currentSubpass /\ info.colorLoadOp = "Clear"
             THEN << [call |-> "glClearBufferfv", buffer |-> "COLOR",
                      drawbuffer |-> location,
                      value |-> ClearColor(currentRenderPass, location)] >>
             ELSE <<>>)
            \o ClearColorCalls(Tail(locations))

\* BeginRenderSubpass: the depth/stencil clear.
ClearDepthStencilCalls ==
    IF SubpassInfo.depthStencilAttachment = -1 THEN <<>>
    ELSE LET info == AttachmentInfo(currentRenderPass,
                                    SubpassInfo.depthStencilAttachment)
             clear == ClearDepthStencil(currentRenderPass,
                                       SubpassInfo.depthStencilAttachment)
             doDepthClear == info.hasDepth /\ info.depthLoadOp = "Clear"
             doStencilClear == info.hasStencil /\ info.stencilLoadOp = "Clear"
         IN IF info.firstSubpass # currentSubpass THEN <<>>
            ELSE IF doDepthClear /\ doStencilClear
                 THEN << [call |-> "glClearBufferfi", buffer |-> "DEPTH_STENCIL",
                          value |-> clear] >>
            ELSE IF doDepthClear
                 THEN << [call |-> "glClearBufferfv", buffer |-> "DEPTH",
                          drawbuffer |-> 0, value |-> clear.depth] >>
            ELSE IF doStencilClear
                 THEN << [call |-> "glClearBufferiv", buffer |-> "STENCIL",
                          value |-> clear.stencil] >>
            ELSE <<>>

\* (variant: the subpass leaves the blend color as it is)
BlendColorResetNone == <<>>

\* BeginRenderSubpass: glBlendColor(0, 0, 0, 0).
BlendColorReset == << [call |-> "glBlendColor", value |-> << 0, 0, 0, 0 >>] >>

\* case Command::BeginRenderSubpass
BeginRenderSubpass ==
    /\ executing /\ pass = "render" /\ currentSubpass < Len(Subpasses(currentRenderPass))
    /\ pass' = "subpass"
    /\ mValues' = PushOnBeginPass
    /\ mLastInputState' = InputOnBeginPass
    /\ currentFBO' = GenFramebuffer
    /\ liveFBOs' = liveFBOs \cup {GenFramebuffer}
    /\ PassHistoryEnds
    /\ Processed("BeginRenderSubpass",
                 << [call |-> "glBindFramebuffer", target |-> "READ", name |-> 0],
                    [call |-> "glGenFramebuffers", name |-> GenFramebuffer],
                    [call |-> "glBindFramebuffer", target |-> "DRAW",
                     name |-> GenFramebuffer] >>
                 \o AttachColorCalls \o AttachDepthStencilCalls
                 \o ClearColorCalls(ColorLocations) \o ClearDepthStencilCalls
                 \o BlendColorReset \o << [call |-> "glViewport"] >>,
                 NoFlush)
    /\ UNCHANGED <<executing, currentRenderPass, currentSubpass, lastPipeline,
                   lastRenderPipeline,
                   indexBufferOffset, mDirtyBits, uniforms, mIndexBufferDirty,
                   mIndexBuffer, mDirtyVertexBuffers, mVertexBuffers,
                   mVertexBufferOffsets, vbSet, layoutSwitched, otherVars>>

\* case Command::EndComputePass
EndComputePass ==
    /\ executing /\ pass = "compute"
    /\ pass' = "none"
    /\ PassHistoryEnds
    /\ Processed("state", <<>>, NoFlush)
    /\ UNCHANGED <<executing, currentRenderPass, currentSubpass, currentFBO, liveFBOs,
                   lastPipeline, lastRenderPipeline, indexBufferOffset, mValues,
                   mDirtyBits, uniforms, inputVars, otherVars>>

\* case Command::EndRenderPass
EndRenderPass ==
    /\ executing /\ pass = "render" /\ currentSubpass = Len(Subpasses(currentRenderPass))
    /\ pass' = "none"
    /\ Processed("state", <<>>, NoFlush)
    /\ UNCHANGED <<executing, currentRenderPass, currentSubpass, currentFBO,
                   liveFBOs, lastPipeline,
                   lastRenderPipeline, indexBufferOffset, pipelineInPass, pushVars,
                   inputVars, otherVars>>

\* (variant: the framebuffer is not deleted)
DeleteFramebuffersNone(name) == liveFBOs

\* glDeleteFramebuffers(1, &currentFBO): the framebuffer names left.
DeleteFramebuffers(name) == liveFBOs \ {name}

\* case Command::EndRenderSubpass
EndRenderSubpass ==
    /\ executing /\ pass = "subpass"
    /\ pass' = "render"
    /\ liveFBOs' = DeleteFramebuffers(currentFBO)
    /\ currentFBO' = 0
    /\ currentSubpass' = currentSubpass + 1
    /\ Processed("EndRenderSubpass",
                 << [call |-> "glDeleteFramebuffers", name |-> currentFBO] >>, NoFlush)
    /\ PassHistoryEnds
    /\ UNCHANGED <<executing, currentRenderPass, lastPipeline, lastRenderPipeline,
                   indexBufferOffset, mValues, mDirtyBits, uniforms, inputVars,
                   otherVars>>

\* case Command::SetComputePipeline
SetComputePipeline(pipeline) ==
    /\ executing /\ pass = "compute"
    /\ lastPipeline' = pipeline
    /\ mDirtyBits' = DirtyAfterSetPipeline(pipeline)
    /\ pipelineInPass' = TRUE
    /\ setAfterBind' = FALSE /\ boundSince' = TRUE
    /\ Processed("SetComputePipeline",
                 << [call |-> "ApplyNow", program |-> pipeline] >>, NoFlush)
    /\ UNCHANGED <<executing, pass, currentRenderPass, currentSubpass, currentFBO,
                   liveFBOs,
                   lastRenderPipeline, indexBufferOffset, mValues, uniforms, logical,
                   setSince, inputVars, otherVars>>

\* case Command::SetRenderPipeline
SetRenderPipeline(pipeline) ==
    /\ executing /\ pass = "subpass"
    /\ lastRenderPipeline' = pipeline
    /\ lastPipeline' = pipeline
    /\ mDirtyBits' = DirtyAfterSetPipeline(pipeline)
    /\ mIndexBufferDirty' = (mIndexBufferDirty \/ ~SameInputState(pipeline))
    /\ mDirtyVertexBuffers' = DirtyAfterInputSetPipeline(pipeline)
    /\ mLastInputState' = InputStateOf(pipeline)
    /\ pipelineInPass' = TRUE
    /\ setAfterBind' = FALSE /\ boundSince' = TRUE
    /\ layoutSwitched' = (\/ layoutSwitched
                          \/ ~pipelineInPass
                          \/ InputStateOf(lastRenderPipeline) # InputStateOf(pipeline))
    /\ Processed("SetRenderPipeline",
                 << [call |-> "ApplyNow", program |-> pipeline] >>, NoFlush)
    /\ UNCHANGED <<executing, pass, currentRenderPass, currentSubpass, currentFBO,
                   liveFBOs,
                   indexBufferOffset, mValues, uniforms, logical, setSince,
                   mIndexBuffer, mVertexBuffers, mVertexBufferOffsets, vbSet,
                   otherVars>>

\* case Command::SetPushConstants
SetPushConstants(stages, count, offset, data) ==
    /\ executing /\ pass \in {"compute", "subpass"}
    /\ stages # {} /\ stages \subseteq StagesOfPass
    /\ offset + count <= MaxPushConstants
    /\ mValues' = ValuesAfterSet(stages, count, offset, data)
    /\ mDirtyBits' = DirtyAfterSet(stages, count, offset)
    /\ logical' = [stage \in Stages |->
                      [c \in PushSlots |->
                          IF stage \in stages /\ c \in offset..(offset + count - 1)
                          THEN data[c - offset + 1]
                          ELSE logical[stage][c]]]
    /\ setSince' = [stage \in Stages |->
                       IF stage \in stages
                       THEN setSince[stage] \cup offset..(offset + count - 1)
                       ELSE setSince[stage]]
    /\ setAfterBind' = boundSince
    /\ Processed("state", <<>>, NoFlush)
    /\ UNCHANGED <<executing, pass, currentRenderPass, currentSubpass, currentFBO,
                   liveFBOs, lastPipeline,
                   lastRenderPipeline, indexBufferOffset, pipelineInPass, uniforms,
                   boundSince, inputVars, otherVars>>

\* case Command::SetBlendColor: glBlendColor(cmd->r, cmd->g, cmd->b, cmd->a)
SetBlendColor(r, g, b, a) ==
    /\ executing /\ pass = "subpass"
    /\ Processed("SetBlendColor",
                 << [call |-> "glBlendColor", value |-> << r, g, b, a >>] >>,
                 NoFlush)
    /\ UNCHANGED <<executing, pass, currentRenderPass, currentSubpass, currentFBO,
                   liveFBOs, lastPipeline, lastRenderPipeline, indexBufferOffset,
                   pipelineInPass, pushVars, inputVars, otherVars>>

\* case Command::SetIndexBuffer
SetIndexBuffer(buffer, offset) ==
    /\ executing /\ pass = "subpass"
    /\ indexBufferOffset' = offset
    /\ mIndexBufferDirty' = TRUE
    /\ mIndexBuffer' = buffer
    /\ Processed("state", <<>>, NoFlush)
    /\ UNCHANGED <<executing, pass, currentRenderPass, currentSubpass, currentFBO,
                   liveFBOs, lastPipeline,
                   lastRenderPipeline, pipelineInPass, pushVars, mDirtyVertexBuffers,
                   mVertexBuffers, mVertexBufferOffsets, mLastInputState, vbSet,
                   layoutSwitched, otherVars>>

\* case Command::SetVertexBuffers: buffers[i] and offsets[i] for slot startSlot + i.
SetVertexBuffers(startSlot, count, buffers, offsets) ==
    /\ executing /\ pass = "subpass"
    /\ startSlot + count <= MaxVertexInputs
    /\ mVertexBuffers' = [slot \in VertexSlots |->
                             IF slot \in startSlot..(startSlot + count - 1)
                             THEN buffers[slot - startSlot + 1]
                             ELSE mVertexBuffers[slot]]
    /\ mVertexBufferOffsets' = [slot \in VertexSlots |->
                                   IF slot \in startSlot..(startSlot + count - 1)
                                   THEN offsets[slot - startSlot + 1]
                                   ELSE mVertexBufferOffsets[slot]]
    /\ mDirtyVertexBuffers' = DirtyAfterSetVertexBuffers(startSlot, count)
    /\ vbSet' = vbSet \cup startSlot..(startSlot + count - 1)
    /\ Processed("state", <<>>, NoFlush)
    /\ UNCHANGED <<executing, pass, currentRenderPass, currentSubpass, currentFBO,
                   liveFBOs, lastPipeline,
                   lastRenderPipeline, indexBufferOffset, pipelineInPass, pushVars,
                   mIndexBufferDirty, mIndexBuffer, mLastInputState, layoutSwitched,
                   otherVars>>

\* The locals of Execute that the copy, bind-group and transition records
\* leave alone.
localVars == <<executing, pass, currentRenderPass, currentSubpass, currentFBO,
               liveFBOs, lastPipeline, lastRenderPipeline, indexBufferOffset,
               pipelineInPass>>

\* The bind groups a stream names and the binding numbers of a group.
BindGroups == {"GA", "GB"}
BindingSlots == 0..3
GroupIndices == {0, 1}

\* group->GetLayout()->GetBindingInfo(): the mask of the active bindings and
\* the type of every binding.
BindGroupLayout(group) ==
    IF group = "GA"
    THEN [mask |-> {0, 1, 3},
          types |-> [b \in BindingSlots |->
                        IF b = 0 THEN "UniformBuffer"
                        ELSE IF b = 1 THEN "Sampler"
                        ELSE IF b = 2 THEN "StorageBuffer"
                        ELSE "SampledTexture"]]
    ELSE [mask |-> {0, 2},
          types |-> [b \in BindingSlots |->
                        IF b = 0 THEN "StorageBuffer"
                        ELSE IF b = 2 THEN "UniformBuffer"
                        ELSE "Sampler"]]

\* ToBackend(lastPipeline->GetLayout())->GetBindingIndexInfo()[groupIndex][binding]
BindingIndexInfo(pipeline, groupIndex, binding) ==
    IF pipeline = "CA" THEN 4 * groupIndex + binding
    ELSE IF pipeline = "CB" THEN 4 * groupIndex + (3 - binding)
    ELSE groupIndex + binding

\* lastGLPipeline->GetTextureUnitsForSampler(index), GetTextureUnitsForTexture(index)
GetTextureUnitsForSampler(pipeline, index) ==
    IF pipeline = "CA" THEN << index >>
    ELSE IF pipeline = "CB" THEN << index, index + 1 >>
    ELSE <<>>
GetTextureUnitsForTexture(pipeline, index) ==
    IF pipeline = "CA" THEN << index + 1, index >>
    ELSE IF pipeline = "CB" THEN << index >>
    ELSE <<>>

\* The object a binding of a group holds: its buffer view, sampler or texture view.
BindingObject(group, binding) == << group, binding >>

\* (variant: every binding number is visited, active or not)
BindGroupSlotsAll(group) == IterateBitSet(BindingSlots)

\* for (uint32_t binding : IterateBitSet(layout.mask))
BindGroupSlots(group) == IterateBitSet(BindGroupLayout(group).mask)

\* The body of the loop: the native calls that bind one binding.
BindCalls(groupIndex, group, binding) ==
    LET type == BindGroupLayout(group).types[binding]
        index == BindingIndexInfo(lastPipeline, groupIndex, binding)
        object == BindingObject(group, binding)
    IN IF type = "UniformBuffer"
       THEN << [call |-> "glBindBufferRange", target |-> "UNIFORM_BUFFER",
                index |-> index, object |-> object] >>
       ELSE IF type = "Sampler"
       THEN LET units == GetTextureUnitsForSampler(lastPipeline, index)
            IN [i \in 1..Len(units) |->
                   [call |-> "glBindSampler", unit |-> units[i], object |-> object]]
       ELSE IF type = "SampledTexture"
       THEN LET units == GetTextureUnitsForTexture(lastPipeline, index)
            IN [i \in 1..(2 * Len(units)) |->
                   IF i % 2 = 1
                   THEN [call |-> "glActiveTexture", unit |-> units[(i + 1) \div 2],
                         object |-> object]
                   ELSE [call |-> "glBindTexture", unit |-> units[i \div 2],
                         object |-> object]]
       ELSE << [call |-> "glBindBufferRange", target |-> "SHADER_STORAGE_BUFFER",
                index |-> index, object |-> object] >>

RECURSIVE BindGroupCalls(_, _, _)
BindGroupCalls(groupIndex, group, slots) ==
    IF slots = <<>> THEN <<>>
    ELSE BindCalls(groupIndex, group, Head(slots))
             \o BindGroupCalls(groupIndex, group, Tail(slots))

\* case Command::SetBindGroup.  lastGLPipeline is assigned wherever lastPipeline
\* is and names the same pipeline.
SetBindGroup(groupIndex, group) ==
    /\ executing /\ pass \in {"compute", "subpass"} /\ lastPipeline # "null"
    /\ Processed("SetBindGroup",
                 BindGroupCalls(groupIndex, group, BindGroupSlots(group)), NoFlush)
    /\ UNCHANGED <<localVars, pushVars, inputVars, otherVars>>

\* The textures a copy names, their formats, and the byte size of a texel.
GLTextures == {"texA", "texD"}
TextureFormat(texture) ==
    IF texture = "texA" THEN "R8G8B8A8Unorm" ELSE "D32FloatS8Uint"
TextureFormatPixelSize(format) == IF format = "D32FloatS8Uint" THEN 8 ELSE 4

\* (variant: the byte pitch is passed on as it is)
RowLengthInBytes(rowPitch, texture) == rowPitch

\* copy->rowPitch / TextureFormatPixelSize(texture->GetFormat()), both uint32_t
RowLength(rowPitch, texture) ==
    rowPitch \div TextureFormatPixelSize(TextureFormat(texture))

\* case Command::CopyBufferToBuffer
CopyBufferToBuffer(source, destination) ==
    /\ executing /\ pass = "none"
    /\ Processed("CopyBufferToBuffer",
                 << [call |-> "glBindBuffer", target |-> "PIXEL_PACK_BUFFER",
                     buffer |-> source],
                    [call |-> "glBindBuffer", target |-> "PIXEL_UNPACK_BUFFER",
                     buffer |-> destination],
                    [call |-> "glCopyBufferSubData"],
                    [call |-> "glBindBuffer", target |-> "PIXEL_PACK_BUFFER",
                     buffer |-> "null"],
                    [call |-> "glBindBuffer", target |-> "PIXEL_UNPACK_BUFFER",
                     buffer |-> "null"] >>, NoFlush)
    /\ UNCHANGED <<localVars, pushVars, inputVars, otherVars>>

\* case Command::CopyBufferToTexture
CopyBufferToTexture(buffer, texture, rowPitch) ==
    /\ executing /\ pass = "none"
    /\ Processed("CopyBufferToTexture",
                 << [call |-> "glBindBuffer", target |-> "PIXEL_UNPACK_BUFFER",
                     buffer |-> buffer],
                    [call |-> "glActiveTexture", unit |-> 0],
                    [call |-> "glBindTexture", texture |-> texture],
                    [call |-> "glPixelStorei", pname |-> "UNPACK_ROW_LENGTH",
                     param |-> RowLength(rowPitch, texture)],
                    [call |-> "glTexSubImage2D", texture |-> texture],
                    [call |-> "glPixelStorei", pname |-> "UNPACK_ROW_LENGTH",
                     param |-> 0],
                    [call |-> "glBindBuffer", target |-> "PIXEL_UNPACK_BUFFER",
                     buffer |-> "null"] >>, NoFlush)
    /\ UNCHANGED <<localVars, pushVars, inputVars, otherVars>>

\* case Command::CopyTextureToBuffer: readFBO is generated and deleted within
\* the record.
CopyTextureToBuffer(texture, buffer, rowPitch) ==
    /\ executing /\ pass = "none"
    /\ Processed("CopyTextureToBuffer",
                 << [call |-> "glBindTexture", texture |-> texture],
                    [call |-> "glGenFramebuffers", name |-> GenFramebuffer],
                    [call |-> "glBindFramebuffer", target |-> "READ",
                     name |-> GenFramebuffer],
                    [call |-> "glFramebufferTexture2D", texture |-> texture],
                    [call |-> "glBindBuffer", target |-> "PIXEL_PACK_BUFFER",
                     buffer |-> buffer],
                    [call |-> "glPixelStorei", pname |-> "PACK_ROW_LENGTH",
                     param |-> RowLength(rowPitch, texture)],
                    [call |-> "glReadPixels", texture |-> texture],
                    [call |-> "glPixelStorei", pname |-> "PACK_ROW_LENGTH",
                     param |-> 0],
                    [call |-> "glBindBuffer", target |-> "PIXEL_PACK_BUFFER",
                     buffer |-> "null"],
                    [call |-> "glDeleteFramebuffers", name |-> GenFramebuffer] >>,
                 NoFlush)
    /\ UNCHANGED <<localVars, pushVars, inputVars, otherVars>>

\* case Command::TransitionBufferUsage: cmd->buffer->UpdateUsageInternal(cmd->usage)
TransitionBufferUsage(usage) ==
    /\ executing /\ bufCreated
    /\ UpdateUsageInternal(usage)
    /\ Processed("TransitionBufferUsage", <<>>, NoFlush)
    /\ UNCHANGED <<bufCreated, bufAllowedUsage, bufHeapType, bufCreateState,
                   texUsage, trackerVars, allocVars, localVars, pushVars, inputVars>>

\* case Command::TransitionTextureUsage: cmd->texture->UpdateUsageInternal(cmd->usage)
TransitionTextureUsage(usage) ==
    /\ executing
    /\ texUsage' = usage
    /\ Processed("TransitionTextureUsage", <<>>, NoFlush)
    /\ UNCHANGED <<bufCreated, bufAllowedUsage, bufUsage, bufHeapType,
                   bufCreateState, pendingCommandList, transitions, trackerVars,
                   allocVars, localVars, pushVars, inputVars>>

\* pushConstants.Apply(lastPipeline, lastGLPipeline): the tracker and the
\* uniforms after the flush.
PushApply ==
    /\ uniforms' = UniformsAfter(uniforms, ApplyWrites(lastPipeline))
    /\ mDirtyBits' = DirtyAfterApply
    /\ setSince' = EmptyStages /\ setAfterBind' = FALSE /\ boundSince' = FALSE

\* inputBuffers.Apply(): the tracker after the flush.
InputApply ==
    /\ mIndexBufferDirty' = (mIndexBufferDirty /\ mIndexBuffer = "null")
    /\ mDirtyVertexBuffers' = {}
    /\ vbSet' = {} /\ layoutSwitched' = FALSE

\* Variant of FlushThenIssue: the native calls come first.
IssueThenFlush(flushCalls, nativeCalls) == nativeCalls \o flushCalls

\* Dispatch, DrawArrays, DrawElements: the Apply calls come first in the case,
\* the native dispatch or draw after them.
FlushThenIssue(flushCalls, nativeCalls) == flushCalls \o nativeCalls

\* Variant of DispatchCalls: no barrier after the dispatch.
DispatchCallsNoBarrier == << [call |-> "glDispatchCompute"] >>

\* Dispatch: glDispatchCompute, then glMemoryBarrier(GL_ALL_BARRIER_BITS).
DispatchCalls ==
    << [call |-> "glDispatchCompute"],
       [call |-> "glMemoryBarrier", barriers |-> "ALL_BARRIER_BITS"] >>

\* case Command::Dispatch
Dispatch ==
    /\ executing /\ pass = "compute" /\ pipelineInPass
    /\ PushApply
    /\ Processed("Dispatch",
                 FlushThenIssue(ApplyWrites(lastPipeline), DispatchCalls),
                 FlushHistory)
    /\ UNCHANGED <<executing, pass, currentRenderPass, currentSubpass, currentFBO,
                   liveFBOs, lastPipeline,
                   lastRenderPipeline, indexBufferOffset, pipelineInPass, mValues,
                   logical, inputVars, otherVars>>

\* case Command::DrawArrays
DrawArrays(vertexCount, instanceCount, firstInstance) ==
    /\ executing /\ pass = "subpass" /\ pipelineInPass /\ VertexInputsSet
    /\ PushApply
    /\ InputApply
    /\ Processed("DrawArrays",
                 FlushThenIssue(
                     ApplyWrites(lastPipeline) \o InputApplyCalls,
                     << [call |-> IF firstInstance > 0
                                  THEN "glDrawArraysInstancedBaseInstance"
                                  ELSE "glDrawArraysInstanced",
                         vertexCount |-> vertexCount,
                         instanceCount |-> instanceCount,
                         firstInstance |-> firstInstance] >>),
                 FlushHistory)
    /\ UNCHANGED <<executing, pass, currentRenderPass, currentSubpass, currentFBO,
                   liveFBOs, lastPipeline,
                   lastRenderPipeline, indexBufferOffset, pipelineInPass, mValues,
                   logical, mIndexBuffer, mVertexBuffers, mVertexBufferOffsets,
                   mLastInputState, otherVars>>

\* case Command::DrawElements
DrawElements(firstInstance) ==
    /\ executing /\ pass = "subpass" /\ pipelineInPass /\ VertexInputsSet
    /\ mIndexBuffer # "null"
    /\ PushApply
    /\ InputApply
    /\ Processed("DrawElements",
                 FlushThenIssue(
                     ApplyWrites(lastPipeline) \o InputApplyCalls,
                     << [call |-> IF firstInstance > 0
                                  THEN "glDrawElementsInstancedBaseInstance"
                                  ELSE "glDrawElementsInstanced",
                         indices |-> indexBufferOffset,
                         firstInstance |-> firstInstance] >>),
                 FlushHistory)
    /\ UNCHANGED <<executing, pass, currentRenderPass, currentSubpass, currentFBO,
                   liveFBOs, lastPipeline,
                   lastRenderPipeline, indexBufferOffset, pipelineInPass, mValues,
                   logical, mIndexBuffer, mVertexBuffers, mVertexBufferOffsets,
                   mLastInputState, otherVars>>

\* The command loop ends with the stream; Execute then unbinds sampler 0.
ExecuteEnd ==
    /\ executing /\ pass = "none" /\ mCommands = <<>>
    /\ executing' = FALSE
    /\ Processed("end", << [call |-> "glBindSampler", unit |-> 0, sampler |-> 0] >>,
                 NoFlush)
    /\ UNCHANGED <<pass, currentRenderPass, currentSubpass, currentFBO, liveFBOs,
                   lastPipeline,
                   lastRenderPipeline, indexBufferOffset, pipelineInPass, pushVars,
                   inputVars, otherVars>>

(***************************************************************************)
(* Initial state and the specifications.                                   *)
(***************************************************************************)
InitUsage ==
    /\ bufCreated = FALSE
    /\ bufAllowedUsage = {}
    /\ bufUsage = {}
    /\ bufHeapType = "none"
    /\ bufCreateState = {}
    /\ pendingCommandList = <<>>
    /\ transitions = <<>>
    /\ texUsage = {}

InitTracker ==
    /\ mSerial = 0
    /\ mInflightRequests = <<>>
    /\ callbacks = <<>>
    /\ tracked = <<>>
    /\ lastTick = NoTick
    /\ mResource = [buffer \in Buffers |-> NewResource]
    /\ trackerDestroyed = FALSE
    /\ assertFailed = FALSE

InitAlloc ==
    /\ vkSerial = 0
    /\ mReleasedMemory = <<>>
    /\ owned = {}
    /\ pool = Memories
    /\ freed = [m \in Memories |-> NotFreed]
    /\ lastAllocTick = -1
    /\ tickBefore = -1
    /\ vkFunction = "none"
    /\ vkBlock = 0
    /\ vkPhase = "done"
    /\ vkCount = 0
    /\ vkReturned = "running"
    /\ vkCalls = <<>>

\* The locals of Execute as constructed, before the first record.
InitLocals ==
    /\ executing = TRUE
    /\ pass = "none"
    /\ currentRenderPass = "null"
    /\ currentSubpass = 0
    /\ currentFBO = 0
    /\ liveFBOs = {}
    /\ lastPipeline = "null"
    /\ lastRenderPipeline = "null"
    /\ indexBufferOffset = 0
    /\ mValues = [stage \in Stages |-> [c \in PushSlots |-> Indeterminate]]
    /\ mDirtyBits = EmptyStages
    /\ mIndexBufferDirty = FALSE
    /\ mIndexBuffer = "null"
    /\ mDirtyVertexBuffers = {}
    /\ mVertexBuffers = [slot \in VertexSlots |-> IndeterminateBuffer]
    /\ mVertexBufferOffsets = [slot \in VertexSlots |-> Indeterminate]
    /\ mLastInputState = "null"
    /\ uniforms = [p \in Pipelines |-> [stage \in Stages |-> [c \in PushSlots |-> 0]]]
    /\ pipelineInPass = FALSE
    /\ logical = [stage \in Stages |-> [c \in PushSlots |-> 0]]
    /\ setSince = EmptyStages
    /\ setAfterBind = FALSE
    /\ boundSince = FALSE
    /\ vbSet = {}
    /\ layoutSwitched = FALSE
    /\ atFlush = NoFlush
    /\ glCalls = [type |-> "none", calls |-> <<>>]
    /\ passClears = <<>>

\* Records arrive one by one and no log is kept.
InitGL ==
    /\ InitLocals
    /\ mCommands = <<>>
    /\ log = [on |-> FALSE, records |-> <<>>, calls |-> <<>>]

Init == InitTracker /\ InitAlloc /\ InitUsage /\ InitGL

Next ==
    \/ NextSerial
    \/ \E buffer \in Buffers, start \in Starts : MapReadAsyncImpl(buffer, start)
    \/ \E finishedSerial \in Serials : MapReadTick(finishedSerial)

Spec == Init /\ [][Next]_vars

\* The life of the buffers and of the tracker: requests, ticks, unmaps, address
\* queries and the destructors.
NextBuffer ==
    \/ NextSerial
    \/ \E buffer \in Buffers : MapReadAsyncImpl(buffer, 0)
    \/ \E finishedSerial \in Serials : MapReadTick(finishedSerial)
    \/ \E buffer \in Buffers : UnmapImpl(buffer)
    \/ \E buffer \in Buffers : GetVA(buffer)
    \/ \E buffer \in Buffers : DestroyBuffer(buffer)
    \/ DestroyTracker

SpecBuffer == Init /\ [][NextBuffer]_vars

NextAlloc ==
    \/ VkNextSerial
    \/ \E memory \in Memories : Allocate(memory)
    \/ \E memory \in Memories : Free(memory)
    \/ \E finishedSerial \in Serials : AllocTick(finishedSerial)

SpecAlloc == Init /\ [][NextAlloc]_vars

\* Calls of the info-gathering functions against a driver whose item counts
\* and results vary from call to call.
NextInfo ==
    \/ \E function \in InfoFunctions : CallInfo(function)
    \/ \E available \in 0..MaxItems, result \in VkResults : CountCall(available, result)
    \/ \E available \in 0..MaxItems, failed \in BOOLEAN : FillCall(available, failed)

SpecInfo == Init /\ [][NextInfo]_vars

NextUsage ==
    \/ \E allowedUsage \in AllowedUsages :
          \E usage \in SUBSET allowedUsage : CreateBuffer(allowedUsage, usage)
    \/ \E targetUsage \in SUBSET bufAllowedUsage : TransitionUsage(targetUsage)

SpecUsage == Init /\ [][NextUsage]_vars

\* The usage mapping over every pair of usages: a buffer that allows every
\* usage bit is created with any usage A and makes its first transition, to
\* any usage B.
NextNative ==
    \/ \E usage \in SUBSET BufferUsageBits : CreateBuffer(BufferUsageBits, usage)
    \/ /\ transitions = <<>>
       /\ \E targetUsage \in SUBSET bufAllowedUsage : TransitionUsage(targetUsage)

SpecNative == Init /\ [][NextNative]_vars

\* Buffer creation alone: a buffer of any allowed usage, created in any usage
\* it allows.
NextCreate ==
    \E allowedUsage \in SUBSET BufferUsageBits :
        \E usage \in SUBSET allowedUsage : CreateBuffer(allowedUsage, usage)

SpecCreate == Init /\ [][NextCreate]_vars

\* Push-constant streams: compute passes and render subpasses over pipelines
\* without vertex inputs.  SetPushConstants records name the compute stage or
\* the vertex and fragment stages together.
NextGL ==
    \/ BeginComputePass
    \/ EndComputePass
    \/ BeginRenderPass("single")
    \/ BeginRenderSubpass
    \/ EndRenderSubpass
    \/ EndRenderPass
    \/ \E pipeline \in ComputePipelines : SetComputePipeline(pipeline)
    \/ \E pipeline \in PushRenderPipelines : SetRenderPipeline(pipeline)
    \/ \E stages \in {{"Compute"}, {"Vertex", "Fragment"}},
          count \in 1..MaxPushConstants, offset \in PushSlots :
          \E data \in [1..count -> Values] :
              SetPushConstants(stages, count, offset, data)
    \/ Dispatch
    \/ DrawArrays(3, 1, 0)
    \/ ExecuteEnd

SpecGL == Init /\ [][NextGL]_vars

\* Vertex-input streams: render subpasses over pipelines without push constants.
\* SetVertexBuffers records cover slots [0,1), [0,3), [2,3) or [2,5) with one
\* buffer at offset 0.
NextInput ==
    \/ BeginRenderPass("single")
    \/ BeginRenderSubpass
    \/ EndRenderSubpass
    \/ EndRenderPass
    \/ \E pipeline \in InputRenderPipelines : SetRenderPipeline(pipeline)
    \/ \E startSlot \in {0, 2}, count \in {1, 3}, buffer \in GLBuffers :
          SetVertexBuffers(startSlot, count, [i \in 1..count |-> buffer],
                           [i \in 1..count |-> 0])
    \/ \E offset \in {0, 4} : SetIndexBuffer("bufB", offset)
    \/ \E firstInstance \in {0, 1} : DrawArrays(3, 1, firstInstance)
    \/ \E firstInstance \in {0, 1} : DrawElements(firstInstance)
    \/ ExecuteEnd

SpecInput == Init /\ [][NextInput]_vars

\* Whole streams, known from the start.  A stream is a sequence of passes:
\* compute passes that set a constant and dispatch, single-subpass render
\* passes that draw from one vertex buffer, single-subpass render passes that
\* draw indexed and then unindexed, and two-subpass render passes.
Cmd(type) == [type |-> type]
SetPipelineCmd(type, pipeline) == [type |-> type, pipeline |-> pipeline]
SetPushConstantsCmd(stages, count, offset, data) ==
    [type |-> "SetPushConstants", stages |-> stages, count |-> count,
     offset |-> offset, data |-> data]
SetVertexBuffersCmd(startSlot, count, buffer) ==
    [type |-> "SetVertexBuffers", startSlot |-> startSlot, count |-> count,
     buffers |-> [i \in 1..count |-> buffer], offsets |-> [i \in 1..count |-> 0]]
DrawArraysCmd(vertexCount, instanceCount, firstInstance) ==
    [type |-> "DrawArrays", vertexCount |-> vertexCount,
     instanceCount |-> instanceCount, firstInstance |-> firstInstance]

ComputeBlocks ==
    { << Cmd("BeginComputePass") >>
      \o (IF x[3]
          THEN << SetPushConstantsCmd({"Compute"}, 1, 1, << x[2] >>),
                  SetPipelineCmd("SetComputePipeline", x[1]) >>
          ELSE << SetPipelineCmd("SetComputePipeline", x[1]),
                  SetPushConstantsCmd({"Compute"}, 1, 1, << x[2] >>) >>)
      \o << Cmd("Dispatch"), Cmd("EndComputePass") >> :
      x \in ComputePipelines \X Values \X BOOLEAN }

PlainBlocks ==
    { << [type |-> "BeginRenderPass", renderPass |-> "single"],
         Cmd("BeginRenderSubpass"),
         SetPipelineCmd("SetRenderPipeline", x[1]),
         SetVertexBuffersCmd(0, 1, "bufA"),
         DrawArraysCmd(3, 1, x[2]),
         Cmd("EndRenderSubpass"), Cmd("EndRenderPass") >> :
      x \in (PlainRenderPipelines \cup {"RB"}) \X {0, 1} }

IndexedBlocks ==
    { << [type |-> "BeginRenderPass", renderPass |-> "single"],
         Cmd("BeginRenderSubpass"),
         SetVertexBuffersCmd(0, 3, "bufA"),
         SetVertexBuffersCmd(2, 3, "bufB"),
         [type |-> "SetIndexBuffer", buffer |-> "bufB", offset |-> 4],
         SetPipelineCmd("SetRenderPipeline", pipeline),
         [type |-> "DrawElements", firstInstance |-> 1],
         SetPipelineCmd("SetRenderPipeline", "RW"),
         DrawArraysCmd(3, 1, 0),
         Cmd("EndRenderSubpass"), Cmd("EndRenderPass") >> :
      pipeline \in InputRenderPipelines }

DoubleBlocks ==
    { << [type |-> "BeginRenderPass", renderPass |-> "double"],
         Cmd("BeginRenderSubpass"),
         SetPipelineCmd("SetRenderPipeline", pipeline),
         SetPushConstantsCmd({"Vertex", "Fragment"}, 2, 0, << 1, 1 >>),
         DrawArraysCmd(3, 1, 0),
         Cmd("EndRenderSubpass"),
         Cmd("BeginRenderSubpass"),
         SetPipelineCmd("SetRenderPipeline", pipeline),
         DrawArraysCmd(3, 1, 0),
         Cmd("EndRenderSubpass"), Cmd("EndRenderPass") >> :
      pipeline \in PushRenderPipelines }

\* Two subpasses drawing with the same pipeline; the vertex and index buffers
\* are set in the first only.
RebindBlocks ==
    { << [type |-> "BeginRenderPass", renderPass |-> "double"],
         Cmd("BeginRenderSubpass"),
         SetVertexBuffersCmd(0, 3, "bufA"),
         SetVertexBuffersCmd(2, 3, "bufB"),
         [type |-> "SetIndexBuffer", buffer |-> "bufB", offset |-> 0],
         SetPipelineCmd("SetRenderPipeline", pipeline),
         [type |-> "DrawElements", firstInstance |-> 0],
         Cmd("EndRenderSubpass"),
         Cmd("BeginRenderSubpass"),
         SetPipelineCmd("SetRenderPipeline", pipeline),
         IF pipeline = "RW" THEN DrawArraysCmd(3, 1, 0)
         ELSE [type |-> "DrawElements", firstInstance |-> 0],
         Cmd("EndRenderSubpass"), Cmd("EndRenderPass") >> :
      pipeline \in InputRenderPipelines }

\* Two compute passes: the first ends with a constant set and not flushed, the
\* second dispatches without setting any.
CarryBlocks ==
    { << Cmd("BeginComputePass"),
         SetPipelineCmd("SetComputePipeline", pipeline),
         SetPushConstantsCmd({"Compute"}, 2, 0, << 1, 1 >>),
         Cmd("Dispatch"),
         SetPushConstantsCmd({"Compute"}, 1, 0, << 1 >>),
         Cmd("EndComputePass"),
         Cmd("BeginComputePass"),
         SetPipelineCmd("SetComputePipeline", pipeline),
         Cmd("Dispatch"),
         Cmd("EndComputePass") >> :
      pipeline \in ComputePipelines }

\* Passes that issue twice in a row: two dispatches after a constant is set, two
\* draws after both constants are set, and indexed draws repeated after the
\* vertex and index buffers are set.
RepeatBlocks ==
    { << Cmd("BeginComputePass"),
         SetPipelineCmd("SetComputePipeline", "CA"),
         SetPushConstantsCmd({"Compute"}, 2, 0, << 1, 0 >>),
         Cmd("Dispatch"), Cmd("Dispatch"),
         Cmd("EndComputePass") >>,
      << [type |-> "BeginRenderPass", renderPass |-> "single"],
         Cmd("BeginRenderSubpass"),
         SetPipelineCmd("SetRenderPipeline", "RA"),
         SetPushConstantsCmd({"Vertex", "Fragment"}, 2, 0, << 1, 1 >>),
         DrawArraysCmd(3, 1, 0), DrawArraysCmd(3, 1, 0),
         Cmd("EndRenderSubpass"), Cmd("EndRenderPass") >> }
    \cup
    { << [type |-> "BeginRenderPass", renderPass |-> "single"],
         Cmd("BeginRenderSubpass"),
         SetVertexBuffersCmd(0, 3, "bufA"),
         SetVertexBuffersCmd(2, 3, "bufB"),
         [type |-> "SetIndexBuffer", buffer |-> "bufA", offset |-> 0],
         SetPipelineCmd("SetRenderPipeline", pipeline),
         [type |-> "DrawElements", firstInstance |-> 0],
         [type |-> "DrawElements", firstInstance |-> 0],
         DrawArraysCmd(3, 1, 0),
         Cmd("EndRenderSubpass"), Cmd("EndRenderPass") >> :
      pipeline \in {"RV", "RW"} }

\* Two subpasses: the first sets the blend color twice, the second once or not
\* at all.
SetBlendColorCmd(color) ==
    [type |-> "SetBlendColor", r |-> color[1], g |-> color[2], b |-> color[3],
     a |-> color[4]]
BlendBlocks ==
    { << [type |-> "BeginRenderPass", renderPass |-> "double"],
         Cmd("BeginRenderSubpass"),
         SetBlendColorCmd(<< 1, 1, 1, 1 >>),
         SetBlendColorCmd(<< 1, 0, 0, 1 >>),
         Cmd("EndRenderSubpass"),
         Cmd("BeginRenderSubpass") >>
      \o later
      \o << Cmd("EndRenderSubpass"), Cmd("EndRenderPass") >> :
      later \in { <<>>, << SetBlendColorCmd(<< 0, 1, 0, 1 >>) >> } }

Blocks ==
    ComputeBlocks \cup PlainBlocks \cup IndexedBlocks \cup DoubleBlocks
        \cup RebindBlocks \cup CarryBlocks \cup RepeatBlocks \cup BlendBlocks

\* The streams of at most n blocks.
RECURSIVE StreamsOf(_)
StreamsOf(n) ==
    IF n = 0 THEN { <<>> }
    ELSE LET shorter == StreamsOf(n - 1)
         IN shorter \cup { x[1] \o x[2] : x \in shorter \X Blocks }
Streams == StreamsOf(MaxBlocks)

\* Execute is handed one of the streams and a log is kept.
InitStream ==
    /\ InitTracker /\ InitAlloc /\ InitUsage /\ InitLocals
    /\ mCommands \in Streams
    /\ log = [on |-> TRUE, records |-> <<>>, calls |-> <<>>]

\* while (mCommands.NextCommandId(&type)) switch (type)
NextCommandId(type) == mCommands # <<>> /\ Head(mCommands).type = type
NextCommand == Head(mCommands)
NextStream ==
    \/ NextCommandId("BeginComputePass") /\ BeginComputePass
    \/ NextCommandId("BeginRenderPass") /\ BeginRenderPass(NextCommand.renderPass)
    \/ NextCommandId("BeginRenderSubpass") /\ BeginRenderSubpass
    \/ NextCommandId("Dispatch") /\ Dispatch
    \/ /\ NextCommandId("DrawArrays")
       /\ DrawArrays(NextCommand.vertexCount, NextCommand.instanceCount,
                     NextCommand.firstInstance)
    \/ NextCommandId("DrawElements") /\ DrawElements(NextCommand.firstInstance)
    \/ NextCommandId("EndComputePass") /\ EndComputePass
    \/ NextCommandId("EndRenderPass") /\ EndRenderPass
    \/ NextCommandId("EndRenderSubpass") /\ EndRenderSubpass
    \/ NextCommandId("SetComputePipeline") /\ SetComputePipeline(NextCommand.pipeline)
    \/ NextCommandId("SetRenderPipeline") /\ SetRenderPipeline(NextCommand.pipeline)
    \/ /\ NextCommandId("SetPushConstants")
       /\ SetPushConstants(NextCommand.stages, NextCommand.count, NextCommand.offset,
                           NextCommand.data)
    \/ /\ NextCommandId("SetBlendColor")
       /\ SetBlendColor(NextCommand.r, NextCommand.g, NextCommand.b, NextCommand.a)
    \/ /\ NextCommandId("SetIndexBuffer")
       /\ SetIndexBuffer(NextCommand.buffer, NextCommand.offset)
    \/ /\ NextCommandId("SetVertexBuffers")
       /\ SetVertexBuffers(NextCommand.startSlot, NextCommand.count,
                           NextCommand.buffers, NextCommand.offsets)
    \/ ExecuteEnd

SpecStream == InitStream /\ [][NextStream]_vars

\* The loop takes a step whenever it can; every step reads a record or leaves
\* the loop.
FairStream == SpecStream /\ WF_<<mCommands, executing>>(NextStream)

\* Streams of copies, usage transitions and bind groups.  The buffer they
\* name has no map usage, so its transitions can need barriers.
TransitionBufferUsageCmd(usage) == [type |-> "TransitionBufferUsage", usage |-> usage]
TransitionTextureUsageCmd(usage) == [type |-> "TransitionTextureUsage", usage |-> usage]
RowPitches == {8, 12, 256}

UploadBlocks ==
    { << TransitionBufferUsageCmd({"TransferSrc"}),
         TransitionTextureUsageCmd({"TransferDst"}),
         [type |-> "CopyBufferToTexture", buffer |-> "bufA", texture |-> x[1],
          rowPitch |-> x[2]],
         TransitionBufferUsageCmd(x[3]) >> :
      x \in GLTextures \X RowPitches \X {{"Vertex"}, {"TransferSrc"}} }

ReadbackBlocks ==
    { << TransitionTextureUsageCmd({"TransferSrc"}),
         TransitionBufferUsageCmd({"TransferDst"}),
         [type |-> "CopyTextureToBuffer", texture |-> x[1], buffer |-> "bufA",
          rowPitch |-> x[2]],
         TransitionBufferUsageCmd({"TransferSrc"}),
         [type |-> "CopyBufferToBuffer", source |-> "bufA", destination |-> "bufB"],
         TransitionBufferUsageCmd({"Uniform"}) >> :
      x \in GLTextures \X {8, 12} }

BindBlocks ==
    { << Cmd("BeginComputePass"),
         SetPipelineCmd("SetComputePipeline", x[1]),
         [type |-> "SetBindGroup", index |-> x[3], group |-> x[4]],
         SetPipelineCmd("SetComputePipeline", x[2]),
         [type |-> "SetBindGroup", index |-> x[3], group |-> x[4]],
         Cmd("EndComputePass") >> :
      x \in ComputePipelines \X ComputePipelines \X GroupIndices \X BindGroups }

ResourceBlocks == UploadBlocks \cup ReadbackBlocks \cup BindBlocks

RECURSIVE ResourceStreamsOf(_)
ResourceStreamsOf(n) ==
    IF n = 0 THEN { <<>> }
    ELSE LET shorter == ResourceStreamsOf(n - 1)
         IN shorter \cup { x[1] \o x[2] : x \in shorter \X ResourceBlocks }
ResourceStreams == ResourceStreamsOf(MaxBlocks)

\* The usages the buffer of the resource streams allows.
ResourceAllowedUsage == {"TransferSrc", "TransferDst", "Vertex", "Uniform"}

InitResource ==
    /\ InitTracker /\ InitAlloc /\ InitLocals
    /\ bufCreated = TRUE
    /\ bufAllowedUsage = ResourceAllowedUsage
    /\ bufUsage = {}
    /\ bufHeapType = D3D12HeapType(ResourceAllowedUsage)
    /\ bufCreateState = CreationState(ResourceAllowedUsage, {})
    /\ pendingCommandList = <<>>
    /\ transitions = <<>>
    /\ texUsage = {}
    /\ mCommands \in ResourceStreams
    /\ log = [on |-> TRUE, records |-> <<>>, calls |-> <<>>]

NextResource ==
    \/ NextCommandId("BeginComputePass") /\ BeginComputePass
    \/ NextCommandId("EndComputePass") /\ EndComputePass
    \/ NextCommandId("SetComputePipeline") /\ SetComputePipeline(NextCommand.pipeline)
    \/ /\ NextCommandId("SetBindGroup")
       /\ SetBindGroup(NextCommand.index, NextCommand.group)
    \/ /\ NextCommandId("CopyBufferToBuffer")
       /\ CopyBufferToBuffer(NextCommand.source, NextCommand.destination)
    \/ /\ NextCommandId("CopyBufferToTexture")
       /\ CopyBufferToTexture(NextCommand.buffer, NextCommand.texture,
                              NextCommand.rowPitch)
    \/ /\ NextCommandId("CopyTextureToBuffer")
       /\ CopyTextureToBuffer(NextCommand.texture, NextCommand.buffer,
                              NextCommand.rowPitch)
    \/ /\ NextCommandId("TransitionBufferUsage")
       /\ TransitionBufferUsage(NextCommand.usage)
    \/ /\ NextCommandId("TransitionTextureUsage")
       /\ TransitionTextureUsage(NextCommand.usage)
    \/ ExecuteEnd

SpecResource == InitResource /\ [][NextResource]_vars

(***************************************************************************)
(* Properties of the serial queue and the map-read tracker.                *)
(***************************************************************************)
\* The entries of q with serial <= s, and those with a larger serial, in order.
UpTo(q, s) == SelectSeq(q, LAMBDA e : e.serial <= s)
Above(q, s) == SelectSeq(q, LAMBDA e : e.serial > s)

\* The callbacks a step added.
NewCallbacks == SubSeq(callbacks', Len(callbacks) + 1, Len(callbacks'))

\* C1: with serials enqueued in non-decreasing order, a Tick(X) visits exactly
\* the queued items whose serial is <= X, in enqueue order, and its ClearUpTo(X)
\* removes exactly those, leaving every item with serial > X queued in its
\* original order.
C1_IterateClearExact ==
    [][\A X \in Serials :
          MapReadTick(X) =>
              /\ Len(NewCallbacks) = Len(UpTo(mInflightRequests, X))
              /\ \A i \in 1..Len(NewCallbacks) :
                     /\ NewCallbacks[i].mapSerial = UpTo(mInflightRequests, X)[i].item.mapSerial
                     /\ NewCallbacks[i].buffer = UpTo(mInflightRequests, X)[i].item.buffer
              /\ mInflightRequests' = Above(mInflightRequests, X)]_vars

\* C1 witness: a Tick has just visited some requests and left others queued.
C1_Witness == lastTick.n >= 1 /\ mInflightRequests # <<>>

\* Number of callbacks delivered for the request numbered mapSerial.
Delivered(mapSerial) ==
    Cardinality({k \in 1..Len(callbacks) : callbacks[k].mapSerial = mapSerial})

\* C3: the completion of every tracked request is invoked exactly once, in the
\* first Tick(f) with f >= the device serial read at Track time: it has been
\* invoked once if such a Tick has happened since, and not at all otherwise.
C3_CallbackExactlyOnce ==
    \A i \in 1..Len(tracked) :
        /\ Delivered(tracked[i].mapSerial) = IF tracked[i].covered THEN 1 ELSE 0
        /\ ~tracked[i].covered =>
               \E k \in 1..Len(mInflightRequests) :
                   mInflightRequests[k].item.mapSerial = tracked[i].mapSerial

\* C3 witness: a Tick has just run that was too early for one tracked request,
\* which is still waiting, while an earlier request has had its callback.
C3_Witness ==
    /\ lastTick.f >= 0
    /\ \E i, j \in 1..Len(tracked) :
          /\ tracked[i].covered /\ Delivered(tracked[i].mapSerial) = 1
          /\ tracked[j].serial > lastTick.f /\ Delivered(tracked[j].mapSerial) = 0

(***************************************************************************)
(* Properties of the memory allocator.                                     *)
(***************************************************************************)
\* C2: an allocation passed to Free while the device serial is N is not
\* available for reuse after any Ticks with f < N, and is available after the
\* first Tick(f) with f >= N: a freed handle is in the pool exactly when a
\* Tick covering its release serial has run since the Free.
C2_FreeDeferredUntilTick ==
    \A m \in Memories :
        freed[m].serial >= 0 =>
            /\ (m \in pool) = freed[m].covered
            /\ m \notin owned

\* C2 witness: a Tick(f) has just run with f below the release serial of one
\* freed handle, which is still held back, and at or above that of another,
\* which is back in the pool.
C2_Witness ==
    /\ lastAllocTick >= 0
    /\ \E m, k \in Memories :
          /\ freed[m].serial > lastAllocTick /\ m \notin pool
          /\ freed[k].serial >= 0 /\ freed[k].serial <= lastAllocTick /\ k \in pool

(***************************************************************************)
(* Properties of D3D12 buffer usage transitions.                           *)
(***************************************************************************)
\* C4: a buffer whose allowed usage is exactly {MapRead,TransferDst} or exactly
\* {MapWrite,TransferSrc} never emits a barrier: no transition request records
\* one and the pending command list stays empty.
C4_MappedBufferNeverTransitions ==
    bufAllowedUsage \in {{"MapRead", "TransferDst"}, {"MapWrite", "TransferSrc"}} =>
        /\ pendingCommandList = <<>>
        /\ \A i \in 1..Len(transitions) : ~transitions[i].recorded

\* C4 witness: an upload buffer (MapWrite,TransferSrc) has been asked for a
\* transition between usages whose native states differ.
C4_Witness ==
    /\ bufAllowedUsage = {"MapWrite", "TransferSrc"}
    /\ \E i \in 1..Len(transitions) :
          D3D12BufferUsage(transitions[i].current)
              # D3D12BufferUsage(transitions[i].target)

\* The transition requests that recorded a barrier, in order.
Recorded == SelectSeq(transitions, LAMBDA t : t.recorded)

\* C5: for a non-mapped buffer a transition request records a barrier if and
\* only if the native states of the current and the target usage differ; every
\* recorded barrier has StateBefore # StateAfter and carries those two states;
\* a change between usages with the same native state, such as {Vertex} to
\* {Uniform}, records nothing.
C5_BarrierIffNativeStateChanges ==
    (bufCreated /\ bufAllowedUsage \cap {"MapRead", "MapWrite"} = {}) =>
        /\ \A i \in 1..Len(transitions) :
               /\ transitions[i].recorded =
                      (D3D12BufferUsage(transitions[i].current)
                          # D3D12BufferUsage(transitions[i].target))
               /\ (transitions[i].current = {"Vertex"}
                      /\ transitions[i].target = {"Uniform"})
                      => ~transitions[i].recorded
        /\ Len(pendingCommandList) = Len(Recorded)
        /\ \A k \in 1..Len(pendingCommandList) :
               /\ pendingCommandList[k].StateBefore # pendingCommandList[k].StateAfter
               /\ pendingCommandList[k].StateBefore
                      = D3D12BufferUsage(Recorded[k].current)
               /\ pendingCommandList[k].StateAfter
                      = D3D12BufferUsage(Recorded[k].target)

\* C5 witness: a non-mapped buffer went from {Vertex} to {Uniform} without a
\* barrier and made another transition that did record one.
C5_Witness ==
    /\ bufCreated /\ bufAllowedUsage \cap {"MapRead", "MapWrite"} = {}
    /\ \E i \in 1..Len(transitions) :
          /\ transitions[i].current = {"Vertex"}
          /\ transitions[i].target = {"Uniform"}
          /\ ~transitions[i].recorded
    /\ \E i \in 1..Len(transitions) : transitions[i].recorded

C25_UsageMappingIsUnionHomomorphism ==
    /\ D3D12BufferUsage({}) = D3D12_RESOURCE_STATE_COMMON
    /\ D3D12BufferUsage({"MapRead", "MapWrite"}) = D3D12_RESOURCE_STATE_COMMON
    /\ D3D12BufferUsage(bufUsage \ {"MapRead", "MapWrite"}) = D3D12BufferUsage(bufUsage)
    /\ \A i \in 1..Len(transitions) :
          LET A == transitions[i].current
              B == transitions[i].target
          IN /\ D3D12BufferUsage(A \cup B)
                    = D3D12BufferUsage(A) \cup D3D12BufferUsage(B)
             /\ D3D12BufferUsage(A \cup {"MapRead", "MapWrite"}) = D3D12BufferUsage(A)

\* C25 witness: a transition between two usages that overlap in their native
\* state without sharing a bit, one of them with a map bit: {MapRead,Vertex}
\* to {Uniform,TransferDst}.
C25_Witness ==
    /\ Len(transitions) = 1
    /\ transitions[1].current = {"MapRead", "Vertex"}
    /\ transitions[1].target = {"Uniform", "TransferDst"}
    /\ D3D12BufferUsage(transitions[1].current \cup transitions[1].target)
           = {"VERTEX_AND_CONSTANT_BUFFER", "COPY_DEST"}

\* The barrier recorded by the k-th recording request went from current to target.
BarrierFor(k, current, target) ==
    Recorded[k].current = current /\ Recorded[k].target = target

\* C26: a barrier is computed from the whole current and the whole target
\* usage only: for a non-mapped buffer, {TransferDst} to {Vertex} records
\* StateBefore = COPY_DEST alone and StateAfter = VERTEX_AND_CONSTANT_BUFFER
\* alone (no copy-destination bit carried over), {TransferDst} to
\* {TransferDst,Vertex} records a different barrier, and two requests with the
\* same current and target usage record the same barrier whatever came before.
C26_BarrierFromWholeBitsets ==
    (bufCreated /\ ~IsMappedBuffer(bufAllowedUsage)) =>
        /\ Len(pendingCommandList) = Len(Recorded)
        /\ \A k \in 1..Len(pendingCommandList) :
               /\ BarrierFor(k, {"TransferDst"}, {"Vertex"}) =>
                      pendingCommandList[k]
                          = [StateBefore |-> {"COPY_DEST"},
                             StateAfter |-> {"VERTEX_AND_CONSTANT_BUFFER"}]
               /\ BarrierFor(k, {"TransferDst"}, {"TransferDst", "Vertex"}) =>
                      /\ pendingCommandList[k]
                             = [StateBefore |-> {"COPY_DEST"},
                                StateAfter |-> {"COPY_DEST",
                                                "VERTEX_AND_CONSTANT_BUFFER"}]
                      /\ pendingCommandList[k]
                             # [StateBefore |-> {"COPY_DEST"},
                                StateAfter |-> {"VERTEX_AND_CONSTANT_BUFFER"}]
               /\ \A j \in 1..Len(pendingCommandList) :
                      (Recorded[j].current = Recorded[k].current
                          /\ Recorded[j].target = Recorded[k].target)
                          => pendingCommandList[j] = pendingCommandList[k]

\* C26 witness: a non-mapped buffer went from {TransferDst} to {Vertex}, back,
\* and from {TransferDst} to {TransferDst,Vertex}; the pending command list
\* holds both barriers.
C26_Witness ==
    /\ bufCreated /\ ~IsMappedBuffer(bufAllowedUsage)
    /\ Len(pendingCommandList) = 3
    /\ BarrierFor(1, {"TransferDst"}, {"Vertex"})
    /\ BarrierFor(3, {"TransferDst"}, {"TransferDst", "Vertex"})
    /\ pendingCommandList[1] # pendingCommandList[3]

(***************************************************************************)
(* Properties of the OpenGL push-constant and input-buffer trackers.       *)
(***************************************************************************)
\* The last record processed was a draw or a dispatch: its flushes have run.
Flushed == atFlush.flushed
\* The last record processed bound a pipeline.
Bound == glCalls.type \in {"SetComputePipeline", "SetRenderPipeline"}

\* The glUniform calls the last record made for a stage, in order.
WrittenCalls(stage) ==
    SelectSeq(glCalls.calls, LAMBDA c : c.call = "glUniform" /\ c.stage = stage)
WrittenSlots(stage) == {WrittenCalls(stage)[i].slot : i \in DOMAIN WrittenCalls(stage)}
WrittenOnce(stage) == Len(WrittenCalls(stage)) = Cardinality(WrittenSlots(stage))
WrittenLatest(stage) ==
    \A i \in DOMAIN WrittenCalls(stage) :
        WrittenCalls(stage)[i].value = logical[stage][WrittenCalls(stage)[i].slot]

\* The vertex-buffer slots the last record bound.
BoundSlots ==
    {glCalls.calls[i].slot :
        i \in {j \in DOMAIN glCalls.calls :
                   /\ glCalls.calls[j].call = "glBindBuffer"
                   /\ glCalls.calls[j].target = "ARRAY_BUFFER"}}
\* The slots the bound pipeline's input layout declares live.
LiveSlots == InputsSetMask(InputStateOf(lastRenderPipeline))

\* C7 as stated: after SetPushConstants for a stage, binding a pipeline that
\* consumes no constant of that stage leaves the slots set since the last
\* flush dirty for that stage.
C7_DirtyBitsSurviveBind ==
    Bound =>
        \A stage \in Stages :
            PushConstantMask(lastPipeline, stage) = {}
                => setSince[stage] \subseteq mDirtyBits[stage]

\* C7 (amended): binding a pipeline makes the dirty set of every stage the
\* slots that pipeline consumes, so for a stage it does not consume the dirty
\* bits of the slots set before are cleared; the values set stay in the tracker.
C7_BindResetsDirtyBits ==
    Bound =>
        \A stage \in Stages :
            /\ mDirtyBits[stage] = PushConstantMask(lastPipeline, stage)
            /\ \A c \in setSince[stage] : mValues[stage][c] = logical[stage][c]

C7_Witness ==
    /\ Bound
    /\ \E stage \in Stages :
           /\ PushConstantMask(lastPipeline, stage) = {}
           /\ setSince[stage] # {}
           /\ mDirtyBits[stage] = {}
           /\ \E c \in setSince[stage] : mValues[stage][c] # 0

\* The case of C8: constants were set for the stage, then a pipeline consuming
\* all of them was bound, then a draw or dispatch flushed.
C8_Case(stage) ==
    /\ Flushed
    /\ atFlush.boundSince /\ ~atFlush.setAfterBind
    /\ atFlush.setSince[stage] # {}
    /\ atFlush.setSince[stage] \subseteq PushConstantMask(lastPipeline, stage)

\* C8 as stated: in that case the flush writes exactly the slots that were
\* set, each once, each with the value most recently set for it.
C8_FlushWritesExactlySetSlots ==
    \A stage \in Stages :
        C8_Case(stage) =>
            /\ WrittenSlots(stage) = atFlush.setSince[stage]
            /\ WrittenOnce(stage)
            /\ WrittenLatest(stage)

\* C8 (amended): the flush after a pipeline bind writes every slot of the
\* stage the pipeline consumes, the slots that were set among them, each once,
\* each with the value most recently set for it in the pass (0 if none was).
C8_FlushWritesConsumedSlots ==
    Flushed /\ atFlush.boundSince =>
        \A stage \in Stages :
            /\ WrittenSlots(stage) = PushConstantMask(lastPipeline, stage)
            /\ atFlush.setSince[stage] \cap PushConstantMask(lastPipeline, stage)
                   \subseteq WrittenSlots(stage)
            /\ WrittenOnce(stage)
            /\ WrittenLatest(stage)

C8_Witness ==
    \E stage \in Stages :
        /\ C8_Case(stage)
        /\ atFlush.setSince[stage] # PushConstantMask(lastPipeline, stage)
        /\ WrittenSlots(stage) = PushConstantMask(lastPipeline, stage)
        /\ \E c \in atFlush.setSince[stage] : logical[stage][c] # 0

\* C10: after the flush of a draw or dispatch in a pass in which a pipeline
\* was bound, every uniform of the bound program that the pipeline consumes
\* holds the logical value of its slot.
C10_UniformsMatchLogical ==
    Flushed /\ pipelineInPass =>
        \A stage \in Stages :
            \A c \in PushConstantMask(lastPipeline, stage) :
                uniforms[lastPipeline][stage][c] = logical[stage][c]

C10_Witness ==
    /\ Flushed /\ pipelineInPass
    /\ glCalls.type = "DrawArrays"
    /\ \E stage \in Stages : PushConstantMask(lastPipeline, stage) # {}
    /\ \A stage \in Stages :
           \A c \in PushConstantMask(lastPipeline, stage) :
               logical[stage][c] # 0 /\ uniforms[lastPipeline][stage][c] = logical[stage][c]

\* C9 as stated: the flush before a draw binds exactly the slots that were
\* set by SetVertexBuffers since the last flush and are live in the bound
\* layout.
C9_FlushBindsSetAndLive ==
    Flushed => BoundSlots = atFlush.vbSet \cap LiveSlots

\* C9 (amended): the flush before a draw binds exactly the live slots that
\* are dirty: every live slot if a pipeline bind changed the input layout
\* since the last flush, otherwise the live slots set by SetVertexBuffers
\* since the last flush.
C9_FlushBindsDirtyAndLive ==
    Flushed =>
        BoundSlots = IF atFlush.layoutSwitched THEN LiveSlots
                     ELSE atFlush.vbSet \cap LiveSlots

C9_Witness ==
    /\ Flushed
    /\ atFlush.vbSet = {2, 3, 4}
    /\ LiveSlots = {0, 2, 4}
    /\ atFlush.layoutSwitched
    /\ BoundSlots = {0, 2, 4}

\* C11 as stated: a slot that is dirty but not consumed by the bound pipeline
\* when a flush begins is still dirty after the flush.
C11_UnconsumedDirtyBitsPersist ==
    Flushed =>
        \A stage \in Stages :
            atFlush.dirty[stage] \ PushConstantMask(lastPipeline, stage)
                \subseteq mDirtyBits[stage]

\* C11 (amended): a flush writes exactly the slots that are both dirty and
\* consumed by the bound pipeline, and clears the dirty bits of every slot of
\* every stage, the dirty slots the pipeline does not consume included; their
\* values stay in the tracker.
C11_FlushWritesConsumedClearsAll ==
    Flushed =>
        \A stage \in Stages :
            /\ WrittenSlots(stage)
                   = atFlush.dirty[stage] \cap PushConstantMask(lastPipeline, stage)
            /\ mDirtyBits[stage] = {}
            /\ \A c \in atFlush.dirty[stage] \cap atFlush.setSince[stage] :
                   mValues[stage][c] = logical[stage][c]

C11_Witness ==
    /\ Flushed
    /\ \E stage \in Stages :
           \E c \in atFlush.dirty[stage] \ PushConstantMask(lastPipeline, stage) :
               /\ c \notin mDirtyBits[stage]
               /\ c \notin WrittenSlots(stage)
               /\ mValues[stage][c] # 0

\* C12: a Tick(f') that directly follows a Tick(f) with f' <= f reclaims
\* nothing and leaves the released-memory queue and the pool as they are, and
\* no freed handle goes back to the pool more than once.
C12_TickIdempotent ==
    /\ [][\A finishedSerial \in Serials :
            (AllocTick(finishedSerial) /\ finishedSerial <= lastAllocTick)
                => /\ Reclaimed(finishedSerial) = {}
                   /\ mReleasedMemory' = mReleasedMemory
                   /\ pool' = pool]_vars
    /\ [](\A m \in Memories : freed[m].returns <= 1)

\* C12 witness: Tick(f) then Tick(f') with f' <= f have run, a handle covered
\* by them is in the pool after one return, and a later release still waits.
C12_Witness ==
    /\ lastAllocTick >= 0 /\ lastAllocTick <= tickBefore
    /\ mReleasedMemory # <<>>
    /\ \E m \in Memories :
           freed[m].covered /\ freed[m].returns = 1 /\ m \in pool

(***************************************************************************)
(* Clears of a render pass.                                                *)
(***************************************************************************)
\* The attachment slot a recorded clear went to: the slot attached at the
\* draw buffer it names, or the depth-stencil slot, of the subpass that
\* issued it.
ClearedSlot(entry) ==
    LET subpass == Subpasses(currentRenderPass)[entry.subpass + 1]
    IN IF entry.clear.buffer = "COLOR"
       THEN subpass.colorAttachments[entry.clear.drawbuffer]
       ELSE subpass.depthStencilAttachment

\* The subpasses of a render pass that reference a slot, and the first of them.
ReferencingSubpasses(renderPass, slot) ==
    { i \in 0..(Len(Subpasses(renderPass)) - 1) :
        LET subpass == Subpasses(renderPass)[i + 1]
        IN \/ \E location \in DOMAIN subpass.colorAttachments :
                 subpass.colorAttachments[location] = slot
           \/ subpass.depthStencilAttachment = slot }
FirstReference(renderPass, slot) ==
    CHOOSE i \in ReferencingSubpasses(renderPass, slot) :
        \A j \in ReferencingSubpasses(renderPass, slot) : i <= j

\* An attachment whose load op asks for a clear.
LoadOpClear(renderPass, slot) ==
    LET info == AttachmentInfo(renderPass, slot)
    IN \/ info.colorLoadOp = "Clear"
       \/ info.hasDepth /\ info.depthLoadOp = "Clear"
       \/ info.hasStencil /\ info.stencilLoadOp = "Clear"

ClearsOfSlot(slot) ==
    SelectSeq(passClears, LAMBDA entry : ClearedSlot(entry) = slot)

\* BeginRenderSubpass of this subpass of the current render pass has run.
SubpassBegun(subpass) ==
    currentSubpass > subpass \/ (currentSubpass = subpass /\ pass = "subpass")

\* C13: in a render pass, an attachment whose load op is Clear is cleared
\* once, by the BeginRenderSubpass of the first subpass that references it,
\* and by no later subpass; other attachments are not cleared.
C13_ClearedOnceAtFirstUse ==
    currentRenderPass # "null" =>
        \A slot \in AttachmentSlots(currentRenderPass) :
            LET first == FirstReference(currentRenderPass, slot)
                clears == ClearsOfSlot(slot)
            IN /\ \A i \in 1..Len(clears) : clears[i].subpass = first
               /\ Len(clears) = IF LoadOpClear(currentRenderPass, slot)
                                   /\ SubpassBegun(first)
                                THEN 1 ELSE 0

\* C13 witness: a two-subpass render pass has ended; the color attachment of
\* both subpasses and the depth-stencil attachment were cleared in subpass 0,
\* the color attachment first used by subpass 1 was cleared there.
C13_Witness ==
    /\ currentRenderPass = "double" /\ pass = "none"
    /\ Len(passClears) = 3
    /\ ClearsOfSlot(1) # <<>> /\ ClearsOfSlot(1)[1].subpass = 0
    /\ ClearsOfSlot(0) # <<>> /\ ClearsOfSlot(0)[1].subpass = 1

(***************************************************************************)
(* Whole executions, read from the log.                                    *)
(***************************************************************************)
IsDraw(c) ==
    c.call \in {"glDrawArraysInstanced", "glDrawArraysInstancedBaseInstance",
                "glDrawElementsInstanced", "glDrawElementsInstancedBaseInstance"}
IsVertexBind(c) == c.call = "glBindBuffer" /\ c.target = "ARRAY_BUFFER"

\* Positions in the log of the calls of one kind.
Positions(Kind(_)) == { i \in 1..Len(log.calls) : Kind(log.calls[i]) }

\* One render pass with one color attachment cleared to red; a pipeline is
\* bound, bufA is set at slot 0 with offset 0, and three vertices of one
\* instance are drawn.
SingleDrawStream(pipeline) ==
    << [type |-> "BeginRenderPass", renderPass |-> "single"],
       Cmd("BeginRenderSubpass"),
       SetPipelineCmd("SetRenderPipeline", pipeline),
       SetVertexBuffersCmd(0, 1, "bufA"),
       DrawArraysCmd(3, 1, 0),
       Cmd("EndRenderSubpass"), Cmd("EndRenderPass") >>

\* One clear, to red, and one draw, of 3 vertices and 1 instance, after every
\* vertex-buffer bind.
OneClearOneDraw ==
    /\ Cardinality(Positions(IsClear)) = 1
    /\ \A i \in Positions(IsClear) :
           log.calls[i].buffer = "COLOR" /\ log.calls[i].value = "red"
    /\ Cardinality(Positions(IsDraw)) = 1
    /\ \A i \in Positions(IsDraw) :
           /\ log.calls[i].call = "glDrawArraysInstanced"
           /\ log.calls[i].vertexCount = 3 /\ log.calls[i].instanceCount = 1
           /\ \A j \in Positions(IsVertexBind) : j < i

\* C14 as stated: once Execute has processed exactly the single-draw stream,
\* whatever its pipeline, its native calls hold one clear to red, one bind of
\* bufA for slot 0, before the draw, and one draw of 3 vertices.
C14_OneBindWhateverPipeline ==
    \A pipeline \in RenderPipelines :
        (log.on /\ log.records = SingleDrawStream(pipeline)) =>
            /\ OneClearOneDraw
            /\ Cardinality(Positions(IsVertexBind)) = 1
            /\ \A i \in Positions(IsVertexBind) :
                   log.calls[i].buffer = "bufA" /\ log.calls[i].slot = 0

\* C14 (amended): the stream yields one clear to red and one draw of 3
\* vertices; bufA is bound once per attribute the pipeline reads from slot 0,
\* each time before the draw: once if the pipeline reads slot 0 through one
\* attribute.
C14_OneBindPerAttribute ==
    \A pipeline \in RenderPipelines :
        (log.on /\ log.records = SingleDrawStream(pipeline)) =>
            /\ OneClearOneDraw
            /\ Cardinality(Positions(IsVertexBind))
                   = Cardinality(AttributesUsingInput(InputStateOf(pipeline), 0))
            /\ \A i \in Positions(IsVertexBind) :
                   log.calls[i].buffer = "bufA" /\ log.calls[i].slot = 0

\* C14 witness: Execute was handed the single-draw stream with the pipeline of
\* one attribute alone and has returned, after one clear, one bind and one
\* draw.
C14_Witness ==
    /\ log.on /\ log.records = SingleDrawStream("RP") /\ ~executing
    /\ Cardinality(Positions(IsClear)) = 1
    /\ Cardinality(Positions(IsVertexBind)) = 1
    /\ Cardinality(Positions(IsDraw)) = 1

(***************************************************************************)
(* Flushes and barriers of draws and dispatches.                           *)
(***************************************************************************)
IsIssue(c) == IsDraw(c) \/ c.call = "glDispatchCompute"
IsFlushCall(c) == c.call \in {"glUniform", "glBindBuffer", "glVertexAttribPointer"}
IsIndexBind(c) == c.call = "glBindBuffer" /\ c.target = "ELEMENT_ARRAY_BUFFER"
\* Positions, among the calls of the last record, of the calls of one kind.
CallPositions(Kind(_)) == { i \in DOMAIN glCalls.calls : Kind(glCalls.calls[i]) }
Issued == glCalls.type \in {"Dispatch", "DrawArrays", "DrawElements"}

\* C15: a Dispatch, DrawArrays or DrawElements record makes its one native
\* dispatch or draw after every call of its flushes; the flushes have written
\* every push constant that was dirty and consumed by the bound pipeline and,
\* for a draw, bound every vertex buffer that was dirty and live and the index
\* buffer if it was dirty; none of that state is dirty when the call is made.
C15_FlushesBeforeIssue ==
    Issued =>
        /\ Cardinality(CallPositions(IsIssue)) = 1
        /\ \A d \in CallPositions(IsIssue) : \A i \in CallPositions(IsFlushCall) : i < d
        /\ \A stage \in Stages :
               /\ atFlush.dirty[stage] \cap PushConstantMask(lastPipeline, stage)
                      \subseteq WrittenSlots(stage)
               /\ mDirtyBits[stage] \cap PushConstantMask(lastPipeline, stage) = {}
        /\ glCalls.type # "Dispatch" =>
               /\ atFlush.dirtyVertex \cap LiveSlots \subseteq BoundSlots
               /\ mDirtyVertexBuffers \cap LiveSlots = {}
               /\ atFlush.indexDirty => CallPositions(IsIndexBind) # {}
               /\ glCalls.type = "DrawElements" => ~mIndexBufferDirty

\* C15 witness: an indexed draw found the index buffer and live vertex buffers
\* dirty and bound them before its draw call.
C15_Witness ==
    /\ glCalls.type = "DrawElements"
    /\ atFlush.indexDirty
    /\ atFlush.dirtyVertex \cap LiveSlots # {}
    /\ CallPositions(IsIndexBind) # {}
    /\ BoundSlots # {}
    /\ \E d \in CallPositions(IsIssue) : d = Len(glCalls.calls) /\ d > 2

\* C16: a Dispatch record ends with its glDispatchCompute followed by one
\* memory barrier over all barrier bits, the only barrier of the record.
C16_FullBarrierAfterDispatch ==
    glCalls.type = "Dispatch" =>
        LET calls == glCalls.calls
            IsBarrier(c) == c.call = "glMemoryBarrier"
        IN /\ Cardinality(CallPositions(IsBarrier)) = 1
           /\ Len(calls) >= 2
           /\ calls[Len(calls)] =
                  [call |-> "glMemoryBarrier", barriers |-> "ALL_BARRIER_BITS"]
           /\ calls[Len(calls) - 1].call = "glDispatchCompute"

\* C16 witness: a Dispatch wrote a uniform, dispatched and raised the barrier.
C16_Witness ==
    /\ glCalls.type = "Dispatch"
    /\ Len(glCalls.calls) = 3
    /\ glCalls.calls[1].call = "glUniform"
    /\ glCalls.calls[3].call = "glMemoryBarrier"

C17_NoUnmapWhileInFlight ==
    \A buffer \in Buffers : mResource[buffer].inFlightAtUnmap = {}

\* C18 as stated: a buffer's resource is handed to Release at most once, and
\* the buffer does not call into the resource after handing it over.
C18_ReleasedOnceAndLeftAlone ==
    \A buffer \in Buffers :
        mResource[buffer].released <= 1 /\ ~mResource[buffer].usedAfterRelease

\* C19: the destructor's assertion fails exactly when the tracker is destroyed
\* with a tracked request that no Tick has covered; if every tracked request
\* was covered by a Tick, the assertion holds.
C19_AssertFailsIffUncovered ==
    trackerDestroyed =>
        (assertFailed <=> \E i \in DOMAIN tracked : ~tracked[i].covered)

\* C19 witness: the tracker was destroyed after a Tick had covered one of two
\* requests, and the assertion failed.
C19_Witness ==
    /\ trackerDestroyed /\ assertFailed
    /\ \E i, j \in DOMAIN tracked : tracked[i].covered /\ ~tracked[j].covered

(***************************************************************************)
(* Vulkan info gathering.                                                  *)
(***************************************************************************)
\* An enumeration call that failed: a counting call returning neither
\* VK_SUCCESS nor VK_INCOMPLETE, a filling call returning anything but
\* VK_SUCCESS.
EnumerationFailed(call) ==
    IF call.kind = "count"
    THEN call.result \notin {"VK_SUCCESS", "VK_INCOMPLETE"}
    ELSE call.result # "VK_SUCCESS"

\* C21: each function returns false as soon as an enumeration call fails, so
\* a failed call is always its last and the result is false; it returns true
\* only after making all its calls, two per enumeration, none of which failed.
C21_FailuresReturnFalse ==
    /\ \A i \in DOMAIN vkCalls :
           EnumerationFailed(vkCalls[i]) => i = Len(vkCalls) /\ vkReturned = "false"
    /\ vkReturned = "false" => vkCalls # <<>> /\ EnumerationFailed(vkCalls[Len(vkCalls)])
    /\ vkReturned = "true" =>
           /\ Len(vkCalls) = 2 * Len(Enumerations(vkFunction))
           /\ \A i \in DOMAIN vkCalls :
                  /\ ~EnumerationFailed(vkCalls[i])
                  /\ vkCalls[i].name = Enumerations(vkFunction)[(i + 1) \div 2]
                  /\ vkCalls[i].kind = IF i % 2 = 1 THEN "count" ELSE "fill"

\* C21 witness: GatherDeviceInfo returned false in its second enumeration
\* because the driver had more items at the filling call than it had counted.
C21_Witness ==
    /\ vkFunction = "GatherDeviceInfo" /\ vkReturned = "false"
    /\ Len(vkCalls) = 4
    /\ vkCalls[4].kind = "fill" /\ vkCalls[4].result = "VK_INCOMPLETE"
    /\ vkCalls[4].available > vkCalls[3].available

(***************************************************************************)
(* Pipeline binds.                                                         *)
(***************************************************************************)
\* The pipeline the last record, a pipeline bind, named.
BoundPipeline == glCalls.calls[1].program

\* C22: after a SetComputePipeline or SetRenderPipeline record the dirty set
\* of every stage is the set of slots the record's pipeline consumes for it.
C22_BindMakesDirtyTheMask ==
    Bound =>
        \A stage \in Stages :
            mDirtyBits[stage] = PushConstantMask(BoundPipeline, stage)

\* C22 witness: slot 1 of the vertex stage had been set and was dirty; binding
\* the pipeline that consumes vertex slot 0 left slot 0 dirty and slot 1 clean.
C22_Witness ==
    /\ glCalls.type = "SetRenderPipeline" /\ BoundPipeline = "RA"
    /\ setSince["Vertex"] = {1}
    /\ mDirtyBits["Vertex"] = {0}

\* C23: a SetRenderPipeline whose input layout is not the cached one adds
\* every live slot of the new layout to the dirty vertex slots, sets the index
\* dirty flag and caches the new layout; one whose layout is the cached one
\* leaves all three as they are.
C23_LayoutChangeMarksLiveSlots ==
    [][\A pipeline \in RenderPipelines :
          SetRenderPipeline(pipeline) =>
              IF InputStateOf(pipeline) # mLastInputState
              THEN /\ mDirtyVertexBuffers'
                          = mDirtyVertexBuffers \cup InputsSetMask(InputStateOf(pipeline))
                   /\ mIndexBufferDirty'
                   /\ mLastInputState' = InputStateOf(pipeline)
              ELSE UNCHANGED <<mDirtyVertexBuffers, mIndexBufferDirty,
                               mLastInputState>>]_vars

\* C23 witness: with no vertex slot dirty, a pipeline whose layout, of slots 0
\* and 3, is not the cached one was bound; both slots and the index buffer are
\* dirty and the layout is cached.
C23_Witness ==
    /\ glCalls.type = "SetRenderPipeline" /\ BoundPipeline = "RW"
    /\ mLastInputState = "I2"
    /\ mDirtyVertexBuffers = {0, 3}
    /\ mIndexBufferDirty
    /\ layoutSwitched /\ vbSet = {}

(***************************************************************************)
(* The input layout across subpass boundaries.                             *)
(***************************************************************************)
\* The records processed since the latest BeginRenderSubpass, that one left
\* out and the last one included.
SinceSubpass ==
    LET begins == { i \in DOMAIN log.records :
                       log.records[i].type = "BeginRenderSubpass" }
        latest == CHOOSE i \in begins : \A j \in begins : j <= i
    IN IF begins = {} THEN <<>>
       ELSE SubSeq(log.records, latest + 1, Len(log.records))

\* The last record is the first of its kind since the latest BeginRenderSubpass.
FirstSinceSubpass(types) ==
    /\ log.on /\ SinceSubpass # <<>> /\ executing
    /\ \A i \in DOMAIN SinceSubpass :
           SinceSubpass[i].type \in types <=> i = Len(SinceSubpass)

\* C24: BeginRenderSubpass leaves the cached input layout unknown; the first
\* pipeline bind of the subpass leaves every live slot of its layout and the
\* index buffer dirty; the first draw of the subpass binds every live slot and,
\* if an index buffer is set, the index buffer.
C24_SubpassForcesRebind ==
    /\ glCalls.type = "BeginRenderSubpass" => mLastInputState = "null"
    /\ FirstSinceSubpass({"SetRenderPipeline"}) =>
           /\ InputsSetMask(InputStateOf(BoundPipeline)) \subseteq mDirtyVertexBuffers
           /\ mIndexBufferDirty
    /\ FirstSinceSubpass({"DrawArrays", "DrawElements"}) =>
           /\ BoundSlots = LiveSlots
           /\ mIndexBuffer # "null" => CallPositions(IsIndexBind) # {}

\* C24 witness: the second subpass of a pass bound the pipeline of the first
\* again and set no buffer; its draw bound slots 0, 2 and 4 and the index
\* buffer.
C24_Witness ==
    /\ FirstSinceSubpass({"DrawArrays", "DrawElements"})
    /\ currentSubpass = 1
    /\ Len(SinceSubpass) = 2
    /\ SinceSubpass[1] = SetPipelineCmd("SetRenderPipeline", "RV")
    /\ BoundSlots = {0, 2, 4}
    /\ CallPositions(IsIndexBind) # {}

(***************************************************************************)
(* Properties of the usage-transition, bind-group and copy records.        *)
(***************************************************************************)
\* The buffer and the texture transition records processed so far, in order.
BufferTransitionRecords ==
    SelectSeq(log.records, LAMBDA r : r.type = "TransitionBufferUsage")
TextureTransitionRecords ==
    SelectSeq(log.records, LAMBDA r : r.type = "TransitionTextureUsage")
\* The usage the buffer had when its i-th transition record was reached.
UsageBefore(i) == IF i = 1 THEN {} ELSE BufferTransitionRecords[i - 1].usage
\* The barriers the first n transition records call for, in order.
RECURSIVE BarriersOf(_)
BarriersOf(n) ==
    IF n = 0 THEN <<>>
    ELSE LET before == D3D12BufferUsage(UsageBefore(n))
             after == D3D12BufferUsage(BufferTransitionRecords[n].usage)
         IN BarriersOf(n - 1)
                \o (IF before # after
                    THEN << [StateBefore |-> before, StateAfter |-> after] >>
                    ELSE <<>>)

\* C27: a usage-transition record takes effect while it is processed: in every
\* state the current usage of the buffer (the texture) is the usage of the last
\* buffer (texture) transition record processed, the transition requests made
\* are those of the processed records in stream order, and the pending command
\* list holds exactly the barriers these records call for, in order; nothing
\* waits for a later record.
C27_TransitionsTakeEffectAtOnce ==
    LET n == Len(BufferTransitionRecords)
        m == Len(TextureTransitionRecords)
    IN /\ Len(transitions) = n
       /\ \A i \in 1..n :
             /\ transitions[i].target = BufferTransitionRecords[i].usage
             /\ transitions[i].current = UsageBefore(i)
       /\ bufUsage = UsageBefore(n + 1)
       /\ texUsage = (IF m = 0 THEN {} ELSE TextureTransitionRecords[m].usage)
       /\ pendingCommandList = BarriersOf(n)

\* C27 witness: a copy has just been processed; the transition record before it
\* changed the buffer's usage and recorded its barrier, and an earlier
\* transition record needed no barrier.
C27_Witness ==
    /\ glCalls.type = "CopyTextureToBuffer"
    /\ bufUsage = {"TransferDst"}
    /\ Len(transitions) = 3
    /\ ~transitions[2].recorded
    /\ transitions[3].recorded
    /\ Len(pendingCommandList) = 2
    /\ texUsage = {"TransferSrc"}

\* The record processed last, and the pipeline of the latest pipeline record.
LastRecord == log.records[Len(log.records)]
PipelineRecords ==
    SelectSeq(log.records, LAMBDA r : r.type \in {"SetComputePipeline", "SetRenderPipeline"})
CurrentlyBound == PipelineRecords[Len(PipelineRecords)].pipeline
\* The native calls of the last record that bind the object of a binding.
CallsBinding(group, binding) ==
    SelectSeq(glCalls.calls, LAMBDA c : c.object = BindingObject(group, binding))
\* The calls of q whose name is call and whose unit is unit.
OnUnit(q, call, unit) == SelectSeq(q, LAMBDA c : c.call = call /\ c.unit = unit)
\* The units of a sequence of units.
UnitsOf(units) == {units[i] : i \in DOMAIN units}

\* C28: a SetBindGroup record with group index g binds every binding of the
\* group's layout mask once, at the index the layout of the currently bound
\* pipeline assigns to (g, binding): buffers by one glBindBufferRange at that
\* index, samplers and sampled textures once on each texture unit the pipeline
\* lists for that index; no binding outside the mask is bound.
C28_BindGroupBindsMaskOnce ==
    glCalls.type = "SetBindGroup" =>
        LET g == LastRecord.index
            group == LastRecord.group
            layout == BindGroupLayout(group)
        IN \A b \in BindingSlots :
              LET calls == CallsBinding(group, b)
                  index == BindingIndexInfo(CurrentlyBound, g, b)
              IN IF b \notin layout.mask THEN calls = <<>>
                 ELSE IF layout.types[b] \in {"UniformBuffer", "StorageBuffer"}
                 THEN /\ Len(calls) = 1
                      /\ calls[1].call = "glBindBufferRange"
                      /\ calls[1].index = index
                      /\ calls[1].target
                             = (IF layout.types[b] = "UniformBuffer"
                                THEN "UNIFORM_BUFFER" ELSE "SHADER_STORAGE_BUFFER")
                 ELSE IF layout.types[b] = "Sampler"
                 THEN LET units == GetTextureUnitsForSampler(CurrentlyBound, index)
                      IN /\ Len(calls) = Len(units)
                         /\ \A u \in UnitsOf(units) :
                               Len(OnUnit(calls, "glBindSampler", u)) = 1
                 ELSE LET units == GetTextureUnitsForTexture(CurrentlyBound, index)
                      IN /\ Len(calls) = 2 * Len(units)
                         /\ \A u \in UnitsOf(units) :
                               /\ Len(OnUnit(calls, "glActiveTexture", u)) = 1
                               /\ Len(OnUnit(calls, "glBindTexture", u)) = 1
                         /\ \A i \in 1..Len(units) :
                               /\ calls[2 * i - 1].call = "glActiveTexture"
                               /\ calls[2 * i].call = "glBindTexture"

\* C28 witness: group GA was bound at index 1 under pipeline CB, bound after
\* CA in the same pass: its sampler went to two texture units, its inactive
\* binding 2 to none.
C28_Witness ==
    /\ glCalls.type = "SetBindGroup"
    /\ LastRecord.group = "GA" /\ LastRecord.index = 1
    /\ Len(PipelineRecords) = 2
    /\ PipelineRecords[1].pipeline = "CA" /\ CurrentlyBound = "CB"
    /\ lastPipeline = "CB"
    /\ Len(CallsBinding("GA", 1)) = 2
    /\ Len(CallsBinding("GA", 0)) = 1
    /\ CallsBinding("GA", 2) = <<>>

\* The glPixelStorei calls of the last record, and the position of its transfer.
RowLengthCalls == SelectSeq(glCalls.calls, LAMBDA c : c.call = "glPixelStorei")
IsTransfer(c) == c.call \in {"glTexSubImage2D", "glReadPixels"}
IsRowLength(c) == c.call = "glPixelStorei"

\* C29: a buffer-to-texture or texture-to-buffer copy sets the native row
\* length (unpack resp. pack) to the record's byte row pitch divided, rounding
\* down, by the byte size of a texel of the texture's format, makes its
\* transfer under that row length and sets the row length back to 0; when the
\* pitch is a multiple of the texel size, row length times texel size is the
\* pitch.
C29_RowLengthIsPitchOverTexelSize ==
    glCalls.type \in {"CopyBufferToTexture", "CopyTextureToBuffer"} =>
        LET pitch == LastRecord.rowPitch
            size == TextureFormatPixelSize(TextureFormat(LastRecord.texture))
            pname == IF glCalls.type = "CopyBufferToTexture"
                     THEN "UNPACK_ROW_LENGTH" ELSE "PACK_ROW_LENGTH"
        IN /\ Len(RowLengthCalls) = 2
           /\ RowLengthCalls[1].pname = pname /\ RowLengthCalls[2].pname = pname
           /\ RowLengthCalls[1].param * size <= pitch
           /\ pitch < (RowLengthCalls[1].param + 1) * size
           /\ pitch % size = 0 => RowLengthCalls[1].param * size = pitch
           /\ RowLengthCalls[2].param = 0
           /\ \E i, j, k \in DOMAIN glCalls.calls :
                 /\ i < j /\ j < k
                 /\ IsRowLength(glCalls.calls[i])
                 /\ IsTransfer(glCalls.calls[j])
                 /\ IsRowLength(glCalls.calls[k])

\* C29 witness: a buffer-to-texture copy of pitch 256 into a texture of 4-byte
\* texels ran with row length 64, after a texture-to-buffer copy of pitch 12
\* from a texture of 8-byte texels that ran with row length 1.
C29_Witness ==
    /\ glCalls.type = "CopyBufferToTexture"
    /\ LastRecord.rowPitch = 256 /\ LastRecord.texture = "texA"
    /\ RowLengthCalls[1].param = 64
    /\ \E i \in DOMAIN log.records :
          /\ log.records[i].type = "CopyTextureToBuffer"
          /\ log.records[i].rowPitch = 12 /\ log.records[i].texture = "texD"
    /\ \E i \in DOMAIN log.calls :
          /\ log.calls[i].call = "glPixelStorei"
          /\ log.calls[i].pname = "PACK_ROW_LENGTH"
          /\ log.calls[i].param = 1

(***************************************************************************)
(* Properties of the transient framebuffers and the subpass index.         *)
(***************************************************************************)
\* Positions of the records of a type in the log; the latest BeginRenderPass.
RecordsOfType(type) == {i \in DOMAIN log.records : log.records[i].type = type}
LastPassBegin ==
    CHOOSE i \in RecordsOfType("BeginRenderPass") :
        \A j \in RecordsOfType("BeginRenderPass") : j <= i
\* The subpasses of the current pass begun, and those ended, so far.
SubpassesBegun ==
    Cardinality({i \in RecordsOfType("BeginRenderSubpass") : i > LastPassBegin})
SubpassesEnded ==
    Cardinality({i \in RecordsOfType("EndRenderSubpass") : i > LastPassBegin})
\* The framebuffer names generated and deleted by subpass records so far.
NamesOf(call) ==
    {log.calls[i].name : i \in {j \in DOMAIN log.calls : log.calls[j].call = call}}
CallCount(call) == Cardinality({j \in DOMAIN log.calls : log.calls[j].call = call})

\* C30: the framebuffer generated at BeginRenderSubpass is deleted at the
\* matching EndRenderSubpass, which advances the subpass index by one: inside a
\* subpass exactly one transient framebuffer exists, the current one; outside
\* none exists, in particular after the stream has ended; every generation but
\* the one of an open subpass has its deletion; and the subpass index is k-1
\* during the k-th subpass of a pass, 0 after BeginRenderPass and the number of
\* ended subpasses between subpasses.
C30_TransientFramebufferPerSubpass ==
    /\ Cardinality(liveFBOs) <= 1
    /\ pass = "subpass" =>
          /\ currentFBO # 0 /\ liveFBOs = {currentFBO}
          /\ CallCount("glGenFramebuffers") = CallCount("glDeleteFramebuffers") + 1
          /\ currentSubpass = SubpassesBegun - 1
    /\ pass # "subpass" =>
          /\ currentFBO = 0 /\ liveFBOs = {}
          /\ CallCount("glGenFramebuffers") = CallCount("glDeleteFramebuffers")
    /\ pass = "render" =>
          /\ currentSubpass = SubpassesEnded
          /\ SubpassesBegun = SubpassesEnded
    /\ glCalls.type = "BeginRenderPass" => currentSubpass = 0
    /\ glCalls.type = "EndRenderSubpass" =>
          /\ Len(glCalls.calls) = 1
          /\ glCalls.calls[1].call = "glDeleteFramebuffers"
          /\ glCalls.calls[1].name \in NamesOf("glGenFramebuffers")
          /\ glCalls.calls[1].name \notin liveFBOs
    /\ ~executing => liveFBOs = {}

\* C30 witness: the stream is inside the second subpass of a pass: the first
\* subpass's framebuffer was deleted, one framebuffer exists and the subpass
\* index is 1.
C30_Witness ==
    /\ pass = "subpass"
    /\ SubpassesBegun = 2
    /\ currentSubpass = 1
    /\ liveFBOs = {currentFBO}
    /\ CallCount("glDeleteFramebuffers") >= 1

(***************************************************************************)
(* Further properties of the map-read tracker.                             *)
(***************************************************************************)
\* The serials of a queue are in non-decreasing order.
SerialsSorted(q) == \A i, j \in DOMAIN q : i < j => q[i].serial <= q[j].serial

\* C31: every Enqueue into the map-read queue meets the queue's precondition:
\* whenever the queue grows, the new entry is appended at the back, carries the
\* device serial of that moment, that serial is at least the serial at the back
\* of the queue, and the serials of the queue stay in non-decreasing order.
C31_EnqueueMeetsPrecondition ==
    [][Len(mInflightRequests') > Len(mInflightRequests) =>
          LET new == mInflightRequests'[Len(mInflightRequests')]
          IN /\ mInflightRequests' = Append(mInflightRequests, new)
             /\ new.serial = mSerial
             /\ EnqueuePrecondition(mInflightRequests, new.serial)
             /\ SerialsSorted(mInflightRequests')]_vars

\* C31 witness: three requests were tracked at three device serials with a
\* Tick in between: the first has been delivered, the other two are queued
\* with different serials.
C31_Witness ==
    /\ Len(tracked) = 3
    /\ Len(callbacks) = 1
    /\ Len(mInflightRequests) = 2
    /\ mInflightRequests[1].serial < mInflightRequests[2].serial
    /\ tracked[1].serial < mInflightRequests[1].serial

\* The map serials of the requests a queue holds.
QueuedSerials(q) == {q[i].item.mapSerial : i \in DOMAIN q}

\* C32: the completions of one Tick are delivered in the order their requests
\* were tracked, each with status SUCCESS and the pointer recorded when the
\* request was tracked (the mapped base of its buffer plus its start offset);
\* every request the Tick takes off the queue was in the queue when its
\* completion was delivered, and none is taken off undelivered.
C32_CompletionsInTrackOrder ==
    [][\A X \in Serials :
          MapReadTick(X) =>
              /\ \A i, j \in DOMAIN NewCallbacks :
                    i < j => NewCallbacks[i].mapSerial < NewCallbacks[j].mapSerial
              /\ \A i \in DOMAIN NewCallbacks :
                    LET c == NewCallbacks[i]
                        t == tracked[c.mapSerial]
                    IN /\ c.status = "SUCCESS"
                       /\ c.buffer = t.buffer
                       /\ c.data = t.data
                       /\ c.data = MappedBase(t.buffer) + t.start
                       /\ c.mapSerial \in QueuedSerials(mInflightRequests)
              /\ QueuedSerials(mInflightRequests) \ QueuedSerials(mInflightRequests')
                    = {NewCallbacks[i].mapSerial : i \in DOMAIN NewCallbacks}]_vars

\* C32 witness: one Tick has just delivered two completions, the first for
\* buffer 2 at start 1 and the second for buffer 1 at start 0, and a third
\* request is still queued.
C32_Witness ==
    /\ lastTick.n = 2
    /\ Len(callbacks) = 2
    /\ callbacks[1].buffer = 2 /\ callbacks[1].data = MappedBase(2) + 1
    /\ callbacks[2].buffer = 1 /\ callbacks[2].data = MappedBase(1)
    /\ callbacks[1].mapSerial = 1 /\ callbacks[2].mapSerial = 2
    /\ Len(mInflightRequests) = 1

(***************************************************************************)
(* Push constants across pass boundaries.                                  *)
(***************************************************************************)
\* Position in the log of the latest record of one of the types (0 if none).
LatestOf(types) ==
    LET at == {i \in DOMAIN log.records : log.records[i].type \in types}
    IN IF at = {} THEN 0 ELSE CHOOSE i \in at : \A j \in at : j <= i
LatestBoundary == LatestOf({"BeginComputePass", "BeginRenderSubpass"})
LatestBind == LatestOf({"SetComputePipeline", "SetRenderPipeline"})
\* The slots of a stage set by SetPushConstants records since the boundary.
SetSinceBoundary(stage) ==
    {c \in PushSlots :
        \E j \in DOMAIN log.records :
            /\ j > LatestBoundary
            /\ log.records[j].type = "SetPushConstants"
            /\ stage \in log.records[j].stages
            /\ c >= log.records[j].offset
            /\ c < log.records[j].offset + log.records[j].count}
\* The last record is the first draw or dispatch after a pipeline bind that
\* followed the latest pass boundary.
FirstIssueAfterBind ==
    /\ Issued
    /\ LatestBoundary > 0 /\ LatestBind > LatestBoundary
    /\ LatestOf({"Dispatch", "DrawArrays", "DrawElements"}) = Len(log.records)
    /\ \A i \in (LatestBind + 1)..(Len(log.records) - 1) :
          log.records[i].type \notin {"Dispatch", "DrawArrays", "DrawElements"}
\* The step processes a BeginComputePass or BeginRenderSubpass record.
BoundaryStep ==
    /\ Len(log'.records) = Len(log.records) + 1
    /\ log'.records[Len(log'.records)].type \in {"BeginComputePass", "BeginRenderSubpass"}

\* C33: push-constant values end at a pass boundary: BeginComputePass and
\* BeginRenderSubpass leave every stored value of every stage 0 and the dirty
\* bits as they were; at the first draw or dispatch after a pipeline bind that
\* follows the boundary, every slot the pipeline consumes that no
\* SetPushConstants has set since the boundary is written once, as 0.
C33_ValuesEndAtPassBoundary ==
    /\ [](FirstIssueAfterBind =>
             \A stage \in Stages :
                 \A c \in PushConstantMask(lastPipeline, stage) \ SetSinceBoundary(stage) :
                     /\ Len(SelectSeq(WrittenCalls(stage), LAMBDA w : w.slot = c)) = 1
                     /\ \A i \in DOMAIN WrittenCalls(stage) :
                           WrittenCalls(stage)[i].slot = c
                               => WrittenCalls(stage)[i].value = 0)
    /\ [][BoundaryStep =>
             /\ mDirtyBits' = mDirtyBits
             /\ \A stage \in Stages : \A c \in PushSlots : mValues'[stage][c] = 0]_vars

\* C33 witness: the second of two compute passes has dispatched with pipeline
\* CA without setting a constant; the first pass had set slots 0 and 1 to 1
\* and ended with slot 0 dirty; both slots were written as 0.
C33_Witness ==
    /\ FirstIssueAfterBind
    /\ glCalls.type = "Dispatch" /\ lastPipeline = "CA"
    /\ SetSinceBoundary("Compute") = {}
    /\ \E i \in DOMAIN log.records :
          /\ log.records[i].type = "SetPushConstants"
          /\ log.records[i].data = << 1, 1 >>
    /\ WrittenSlots("Compute") = {0, 1}
    /\ \A i \in DOMAIN WrittenCalls("Compute") : WrittenCalls("Compute")[i].value = 0

(***************************************************************************)
(* C34: a flush that directly follows a flush issues nothing.              *)
(***************************************************************************)
IssueTypes == {"Dispatch", "DrawArrays", "DrawElements"}
\* The step processes a draw or dispatch and the record before it was one too.
SecondIssue ==
    /\ Len(log.records') = Len(log.records) + 1
    /\ log.records # <<>>
    /\ LastRecord.type \in IssueTypes
    /\ log.records'[Len(log.records')].type \in IssueTypes

\* C34: when a draw or dispatch record directly follows another one (no
\* SetPushConstants, SetVertexBuffers, SetIndexBuffer, pipeline bind or pass
\* boundary between them), the flush of the second makes no uniform write, no
\* vertex-buffer bind, no attribute pointer and no index-buffer bind: its
\* native calls are the draw or dispatch calls alone.
C34_SecondFlushIssuesNothing ==
    [][SecondIssue =>
          /\ atFlush'.flushed
          /\ \A i \in DOMAIN glCalls'.calls : ~IsFlushCall(glCalls'.calls[i])]_vars

\* A second indexed draw has run after a first one that bound the index buffer
\* and the vertex buffers; a second dispatch has run after one that wrote
\* uniforms is the other case the streams hold.
C34_Witness ==
    /\ Len(log.records) >= 2
    /\ LastRecord.type = "DrawElements"
    /\ log.records[Len(log.records) - 1].type = "DrawElements"
    /\ Len(glCalls.calls) = 1
    /\ \E i \in DOMAIN log.calls : IsIndexBind(log.calls[i])
    /\ \E i \in DOMAIN log.calls : IsVertexBind(log.calls[i])

(***************************************************************************)
(* C35: the index buffer is bound when it is dirty and has been set.       *)
(***************************************************************************)
SetIndexBufferRecords == RecordsOfType("SetIndexBuffer")
DrawRecords == RecordsOfType("DrawArrays") \cup RecordsOfType("DrawElements")
\* The step processes a draw record: both trackers are flushed.
DrawStep ==
    /\ Len(log.records') = Len(log.records) + 1
    /\ log.records'[Len(log.records')].type \in {"DrawArrays", "DrawElements"}
IndexBinds(calls) == SelectSeq(calls, IsIndexBind)

\* C35: the flush of a draw binds the index buffer exactly when the dirty flag
\* is set and a SetIndexBuffer record came earlier in the stream, and then it
\* binds once, the buffer of the latest such record, and clears the flag.
\* While no SetIndexBuffer record has come the flush binds none and the flag
\* is left as it was; the first draw after the first SetIndexBuffer record
\* binds.
C35_IndexBoundIffDirtyAndSet ==
    [][DrawStep =>
          LET binds == IndexBinds(glCalls'.calls)
              everSet == SetIndexBufferRecords # {}
          IN /\ binds # <<>> <=> (mIndexBufferDirty /\ everSet)
             /\ binds # <<>> =>
                    /\ Len(binds) = 1
                    /\ binds[1].buffer =
                           log.records[LatestOf({"SetIndexBuffer"})].buffer
                    /\ ~mIndexBufferDirty'
             /\ ~everSet =>
                    /\ binds = <<>>
                    /\ mIndexBufferDirty' = mIndexBufferDirty
             /\ (/\ everSet
                 /\ \A d \in DrawRecords :
                        \A r \in SetIndexBufferRecords : d < r)
                    => binds # <<>>]_vars

\* A draw flushed with the flag set before any index buffer was set and left
\* the flag set; a later pass set an index buffer and its first draw bound it.
C35_Witness ==
    /\ Issued /\ IndexBinds(glCalls.calls) # <<>>
    /\ Cardinality(SetIndexBufferRecords) = 1
    /\ \E d \in DrawRecords : \A r \in SetIndexBufferRecords : d < r
    /\ Len(IndexBinds(log.calls)) = 1

(***************************************************************************)
(* C36: the value of a color clear.                                        *)
(***************************************************************************)
ColorClears == SelectSeq(passClears, LAMBDA entry : entry.clear.buffer = "COLOR")

\* C36: every color clear of the current render pass used the clear color the
\* framebuffer records for the attachment slot it cleared, the slot the
\* subpass attaches at the cleared color location, as the depth/stencil clear
\* uses the value of its attachment slot.
C36_ColorClearUsesSlotValue ==
    \A i \in DOMAIN ColorClears :
        ColorClears[i].clear.value =
            ClearColor(currentRenderPass, ClearedSlot(ColorClears[i]))

(***************************************************************************)
(* C37: the native blend color.                                            *)
(***************************************************************************)
IsBlendColor(c) == c.call = "glBlendColor"
\* The blend color of the context: the argument of the latest glBlendColor.
NativeBlendColor ==
    LET set == SelectSeq(log.calls, IsBlendColor)
    IN IF set = <<>> THEN <<>> ELSE set[Len(set)].value
\* The SetBlendColor records of the current subpass.
BlendRecordsOfSubpass ==
    {i \in RecordsOfType("SetBlendColor") : i > LatestOf({"BeginRenderSubpass"})}
ColorOf(record) == << record.r, record.g, record.b, record.a >>

\* C37: inside a render subpass the native blend color is (0,0,0,0) until a
\* SetBlendColor record of this subpass is processed, whatever SetBlendColor
\* records earlier subpasses held, and from then on the color of the latest
\* SetBlendColor record of this subpass; the record's step makes the one
\* glBlendColor call that carries its color.
C37_BlendColorPerSubpass ==
    /\ pass = "subpass" =>
           NativeBlendColor =
               IF BlendRecordsOfSubpass = {} THEN << 0, 0, 0, 0 >>
               ELSE ColorOf(log.records[LatestOf({"SetBlendColor"})])
    /\ glCalls.type = "SetBlendColor" =>
           glCalls.calls = << [call |-> "glBlendColor",
                               value |-> ColorOf(LastRecord)] >>

\* The second subpass has begun after the first set a blend color other than
\* zero: the native blend color is zero again.
C37_Witness ==
    /\ pass = "subpass" /\ currentSubpass = 1
    /\ glCalls.type = "BeginRenderSubpass"
    /\ RecordsOfType("SetBlendColor") # {}
    /\ BlendRecordsOfSubpass = {}
    /\ NativeBlendColor = << 0, 0, 0, 0 >>

(***************************************************************************)
(* C38: heap and creation state of a D3D12 buffer.                         *)
(***************************************************************************)
\* C38: a created buffer whose allowed usage holds MapRead is on the READBACK
\* heap, with or without MapWrite, and its creation state is the native state
\* of its initial usage with COPY_DEST added; one whose allowed usage holds
\* MapWrite and not MapRead is on the UPLOAD heap and its creation state is
\* that native state with GENERIC_READ added; every other buffer is on the
\* DEFAULT heap, created in exactly the native state of its initial usage.
C38_HeapAndStateFromUsages ==
    bufCreated =>
        LET native == D3D12BufferUsage(bufUsage)
        IN /\ "MapRead" \in bufAllowedUsage =>
                  /\ bufHeapType = "READBACK"
                  /\ "COPY_DEST" \in bufCreateState
                  /\ bufCreateState = native \cup {"COPY_DEST"}
           /\ ("MapWrite" \in bufAllowedUsage /\ "MapRead" \notin bufAllowedUsage) =>
                  /\ bufHeapType = "UPLOAD"
                  /\ D3D12_RESOURCE_STATE_GENERIC_READ \subseteq bufCreateState
                  /\ bufCreateState = native \cup D3D12_RESOURCE_STATE_GENERIC_READ
           /\ bufAllowedUsage \cap {"MapRead", "MapWrite"} = {} =>
                  /\ bufHeapType = "DEFAULT"
                  /\ bufCreateState = native

\* A buffer allowing both map usages was created in a usage without
\* TransferDst: it is on the READBACK heap, in a state with COPY_DEST.
C38_Witness ==
    /\ bufCreated
    /\ {"MapRead", "MapWrite"} \subseteq bufAllowedUsage
    /\ "TransferDst" \notin bufUsage
    /\ bufHeapType = "READBACK"
    /\ "COPY_DEST" \in bufCreateState


====
